---- MODULE Spec2Model ----
(***************************************************************************)
(* Model of the scale-r dashboard (src/App.jsx as concatenated in          *)
(* src/src/utils/highlightText.jsx): the search box state machine, the     *)
(* project load handler, the marker filter effect and the filter /         *)
(* aggregation memos (filteredStats, pieChartData).                        *)
(*                                                                         *)
(* JavaScript strings are sequences of one-character strings, so that      *)
(* trim, toLowerCase and includes are computed and not assumed.  A         *)
(* property value is a tagged record (undefined / string / number).        *)
(* React state is one variable per useState cell; a useEffect is an action *)
(* that runs when one of its dependencies changed in the last commit; a    *)
(* useMemo is an operator over the state cells it depends on.              *)
(***************************************************************************)
EXTENDS Integers, Sequences, FiniteSets, TLC

(***************************************************************************)
(* Bounds of the model.                                                    *)
(***************************************************************************)
\* longest list of ticked check boxes per filter dimension
MaxSelected == 2
\* most 100 ms reset timers pending at once
MaxTimers == 1

(***************************************************************************)
(* JavaScript strings.                                                     *)
(***************************************************************************)
IsSpace(c) == c = " "

toLowerChar(c) ==
  CASE c = "A" -> "a" [] c = "B" -> "b" [] c = "C" -> "c" [] c = "D" -> "d"
    [] c = "E" -> "e" [] c = "F" -> "f" [] c = "G" -> "g" [] c = "H" -> "h"
    [] c = "I" -> "i" [] c = "J" -> "j" [] c = "K" -> "k" [] c = "L" -> "l"
    [] c = "M" -> "m" [] c = "N" -> "n" [] c = "O" -> "o" [] c = "P" -> "p"
    [] c = "Q" -> "q" [] c = "R" -> "r" [] c = "S" -> "s" [] c = "T" -> "t"
    [] c = "U" -> "u" [] c = "V" -> "v" [] c = "W" -> "w" [] c = "X" -> "x"
    [] c = "Y" -> "y" [] c = "Z" -> "z" [] OTHER -> c

\* String.prototype.toLowerCase
toLowerCase(s) == [i \in 1..Len(s) |-> toLowerChar(s[i])]

RECURSIVE trimStart(_)
trimStart(s) ==
  IF s # <<>> /\ IsSpace(Head(s)) THEN trimStart(Tail(s)) ELSE s

RECURSIVE trimEnd(_)
trimEnd(s) ==
  IF s # <<>> /\ IsSpace(s[Len(s)]) THEN trimEnd(SubSeq(s, 1, Len(s) - 1)) ELSE s

\* String.prototype.trim
trim(s) == trimEnd(trimStart(s))

\* String.prototype.includes
includes(s, t) ==
  \E i \in 1..(Len(s) - Len(t) + 1) : SubSeq(s, i, i + Len(t) - 1) = t

\* the characters of s that are not in the set drop: s.replace(/[..]/g, '')
RECURSIVE stripChars(_, _)
stripChars(s, drop) ==
  IF s = <<>> THEN <<>>
  ELSE IF Head(s) \in drop THEN stripChars(Tail(s), drop)
       ELSE <<Head(s)>> \o stripChars(Tail(s), drop)

Digits == {"0", "1", "2", "3", "4", "5", "6", "7", "8", "9"}

DigitValue(c) ==
  CASE c = "0" -> 0 [] c = "1" -> 1 [] c = "2" -> 2 [] c = "3" -> 3
    [] c = "4" -> 4 [] c = "5" -> 5 [] c = "6" -> 6 [] c = "7" -> 7
    [] c = "8" -> 8 [] c = "9" -> 9

(***************************************************************************)
(* JavaScript values held in a feature's property mapping.                 *)
(***************************************************************************)
Undefined == [k |-> "undefined", s |-> <<>>, n |-> 0]
JsNull == [k |-> "null", s |-> <<>>, n |-> 0]
Str(s) == [k |-> "str", s |-> s, n |-> 0]
Num(n) == [k |-> "num", s |-> <<>>, n |-> n]
\* the result of a parse that found no number
NaN == [k |-> "nan", s |-> <<>>, n |-> 0]

\* ToBoolean
Truthy(v) == \/ v.k = "str" /\ v.s # <<>>
             \/ v.k = "num" /\ v.n # 0

\* a || b
Or(a, b) == IF Truthy(a) THEN a ELSE b

\* props[key]
Get(props, key) == IF key \in DOMAIN props THEN props[key] ELSE Undefined

\* parseFloat of a string: leading white space, then the longest prefix of
\* decimal digits (the inputs of the model carry no sign, fraction or
\* exponent); NaN when no digit is found
RECURSIVE digitPrefix(_, _, _)
digitPrefix(s, acc, seen) ==
  IF s # <<>> /\ Head(s) \in Digits
    THEN digitPrefix(Tail(s), acc * 10 + DigitValue(Head(s)), TRUE)
    ELSE IF seen THEN Num(acc) ELSE NaN

parseFloat(v) ==
  CASE v.k = "num" -> v
    [] v.k = "str" -> digitPrefix(trimStart(v.s), 0, FALSE)
    [] OTHER -> NaN

(***************************************************************************)
(* Project features.  A feature is [geom, x, y, props]: geom is the kind   *)
(* of its geometry ("Point" with two finite numbers, "PointNaN" a Point    *)
(* whose coordinates are not finite numbers, "LineString", or "null" for   *)
(* geometry: null); x, y are the coordinates in units of 0.00005 degree;   *)
(* props maps the source's property keys to values.                        *)
(***************************************************************************)
Feature(geom, x, y, props) == [geom |-> geom, x |-> x, y |-> y, props |-> props]

sInfrastructure == <<" ", "I", "n", "f", "r", "a", "s", "t", "r", "u", "c", "t", "u", "r", "e">>
sBlue == <<"B", "l", "u", "e">>
sGreen == <<"G", "r", "e", "e", "n">>
sGrey == <<"G", "r", "e", "y">>
sHybrid == <<"H", "y", "b", "r", "i", "d">>
sUnknown == <<"U", "n", "k", "n", "o", "w", "n">>
\* a spelling that is none of the synonyms pieChartData knows
sGray == <<"G", "r", "a", "y">>
sMiami == <<"M", "i", "a", "m", "i">>
sDoral == <<"D", "o", "r", "a", "l">>
sFlood == <<"F", "l", "o", "o", "d">>
sHeat == <<"H", "e", "a", "t">>
sab == <<"a", "b">>
sAB == <<"A", "B">>
sxab == <<"x", "a", "b">>
sabab == <<"a", "b", "a", "b">>
scd == <<"c", "d">>
\* "$2,000,000"
sTwoMillion == <<"$", "2", ",", "0", "0", "0", ",", "0", "0", "0">>
\* "N/A"
sNA == <<"N", "/", "A">>

\* A collection with every schema variant the filters read: current and legacy
\* keys, padded city names, a type outside the known synonyms, a feature with
\* no type and no city, costs as number, string, null and unparseable string.
MixedFeatures ==
  << Feature("Point", 10, 10,
       [Infrastruc |-> Str(sBlue), Disaster_F |-> Str(sFlood),
        NAME |-> Str(<<" ">> \o sMiami \o <<" ">>), Estimated_ |-> Num(1000000),
        Project_Na |-> Str(sab)]),
     Feature("Point", 11, 10,
       ("Type" :> Str(sGreen)) @@ ("City" :> Str(sDoral \o <<" ">>))
         @@ ("Disaster Focus" :> Str(sHeat))
         @@ ("Estimated Project Cost" :> Str(sTwoMillion))
         @@ ("Project Name" :> Str(sxab))),
     Feature("LineString", 30, 30,
       [Infrastruc |-> Str(sGray), NAME |-> Str(<<" ">> \o sMiami),
        Disaster_F |-> Str(sFlood), Estimated_ |-> JsNull,
        New_15_25_ |-> Str(sxab)]),
     Feature("Point", 40, 40,
       [Disaster_F |-> Str(sHeat), Estimated_ |-> Str(sNA), NAME |-> Str(<<" ">>)]),
     Feature("Point", 50, 50,
       ("Infrastructure Type" :> Str(sGreen \o sInfrastructure))
         @@ ("NAME" :> Str(sDoral)) @@ ("Estimated_" :> Num(500000))) >>

(***************************************************************************)
(* allProjectsData: null until the project fetch succeeds, then the        *)
(* fetched FeatureCollection.                                              *)
(***************************************************************************)
NullData == [isNull |-> TRUE, features |-> <<>>]
Data(fs) == [isNull |-> FALSE, features |-> fs]

\* Array.prototype.includes
arrayIncludes(arr, v) == \E i \in 1..Len(arr) : arr[i] = v

\* the indices 1..n, in order: what Array.prototype.filter selects from
Indices(n) == [i \in 1..n |-> i]

\* props['Infrastruc'] || props['Infrastructure Type'] || props['Type']
resolveType(props) ==
  Or(Or(Get(props, "Infrastruc"), Get(props, "Infrastructure Type")), Get(props, "Type"))

\* props['Disaster_F'] || props['Disaster Focus']
resolveDisasterFocus(props) == Or(Get(props, "Disaster_F"), Get(props, "Disaster Focus"))

\* (props['NAME'] || props['City']) ? (..).trim() : (..)
resolveCity(props) ==
  LET c == Or(Get(props, "NAME"), Get(props, "City"))
  IN  IF Truthy(c) THEN Str(trim(c.s)) ELSE c

\* selectedCity ? selectedCity.trim() : selectedCity
selectedCityTrimmed(selCity) == IF selCity # <<>> THEN trim(selCity) ELSE selCity

(***************************************************************************)
(* The marker filter effect's shouldShow.                                  *)
(***************************************************************************)
\* shouldShow without the disaster focus test
shouldShow_IgnoresFocus(props, selTypes, selFocus, selCity) ==
  LET type == resolveType(props)
      city == resolveCity(props)
      typeMatch == Len(selTypes) = 0 \/ arrayIncludes(selTypes, type)
      sct == selectedCityTrimmed(selCity)
      cityMatch == sct = <<>> \/ city = Str(sct)
  IN  typeMatch /\ cityMatch

shouldShow(props, selTypes, selFocus, selCity) ==
  LET type == resolveType(props)
      disasterFocus == resolveDisasterFocus(props)
      city == resolveCity(props)
      typeMatch == Len(selTypes) = 0 \/ arrayIncludes(selTypes, type)
      disasterMatch == Len(selFocus) = 0 \/ arrayIncludes(selFocus, disasterFocus)
      sct == selectedCityTrimmed(selCity)
      cityMatch == sct = <<>> \/ city = Str(sct)
  IN  typeMatch /\ disasterMatch /\ cityMatch

(***************************************************************************)
(* filteredStats: the filter predicate, the reduce over the cost, and the  *)
(* memo itself.                                                            *)
(***************************************************************************)
\* statsFilter comparing the city as stored, without trim()
statsFilter_CityNotTrimmed(props, selTypes, selFocus, selCity) ==
  LET type == resolveType(props)
      disasterFocus == resolveDisasterFocus(props)
      city == Or(Get(props, "NAME"), Get(props, "City"))
      typeMatch == Len(selTypes) = 0 \/ arrayIncludes(selTypes, type)
      disasterMatch == Len(selFocus) = 0 \/ arrayIncludes(selFocus, disasterFocus)
      sct == selectedCityTrimmed(selCity)
      cityMatch == sct = <<>> \/ city = Str(sct)
  IN  typeMatch /\ disasterMatch /\ cityMatch

statsFilter(props, selTypes, selFocus, selCity) ==
  LET type == resolveType(props)
      disasterFocus == resolveDisasterFocus(props)
      city == resolveCity(props)
      typeMatch == Len(selTypes) = 0 \/ arrayIncludes(selTypes, type)
      disasterMatch == Len(selFocus) = 0 \/ arrayIncludes(selFocus, disasterFocus)
      sct == selectedCityTrimmed(selCity)
      cityMatch == sct = <<>> \/ city = Str(sct)
  IN  typeMatch /\ disasterMatch /\ cityMatch

\* costAdded with parseFloat(cost) for strings too, '$' and ',' left in
costAdded_NoStrip(props) ==
  LET cost == Or(Get(props, "Estimated_"), Get(props, "Estimated Project Cost"))
      numericCost == parseFloat(cost)
  IN  IF ~Truthy(cost) THEN 0
      ELSE IF numericCost.k = "nan" THEN 0
      ELSE numericCost.n

\* what one feature adds to the sum in the reduce callback
costAdded(props) ==
  LET cost == Or(Get(props, "Estimated_"), Get(props, "Estimated Project Cost"))
      numericCost == IF cost.k = "str"
                       THEN parseFloat(Str(stripChars(cost.s, {"$", ","})))
                       ELSE parseFloat(cost)
  IN  IF ~Truthy(cost) THEN 0
      ELSE IF numericCost.k = "nan" THEN 0
      ELSE numericCost.n

RECURSIVE reduceCost(_, _, _)
reduceCost(features, idx, sum) ==
  IF idx = <<>> THEN sum
  ELSE reduceCost(features, Tail(idx), sum + costAdded(features[Head(idx)].props))

statsFilteredFeatures(data, selTypes, selFocus, selCity) ==
  SelectSeq(Indices(Len(data.features)),
    LAMBDA i : statsFilter(data.features[i].props, selTypes, selFocus, selCity))

\* filteredStats with the reduce over allProjectsData.features
filteredStatsOf_TotalOverAll(data, selTypes, selFocus, selCity) ==
  IF data.isNull THEN [projectCount |-> 0, totalInvestment |-> 0]
  ELSE LET filteredFeatures == statsFilteredFeatures(data, selTypes, selFocus, selCity)
       IN  [projectCount |-> Len(filteredFeatures),
            totalInvestment |->
              reduceCost(data.features, [i \in 1..Len(data.features) |-> i], 0)]

filteredStatsOf(data, selTypes, selFocus, selCity) ==
  IF data.isNull THEN [projectCount |-> 0, totalInvestment |-> 0]
  ELSE LET filteredFeatures == statsFilteredFeatures(data, selTypes, selFocus, selCity)
       IN  [projectCount |-> Len(filteredFeatures),
            totalInvestment |-> reduceCost(data.features, filteredFeatures, 0)]

(***************************************************************************)
(* pieChartData: its own copy of the filter, the type normalisation, the   *)
(* counts in first-seen order (Object.entries) and the sort by count.      *)
(***************************************************************************)
pieFilter(props, selTypes, selFocus, selCity) ==
  LET type == resolveType(props)
      disasterFocus == resolveDisasterFocus(props)
      city == resolveCity(props)
      typeMatch == Len(selTypes) = 0 \/ arrayIncludes(selTypes, type)
      disasterMatch == Len(selFocus) = 0 \/ arrayIncludes(selFocus, disasterFocus)
      sct == selectedCityTrimmed(selCity)
      cityMatch == sct = <<>> \/ city = Str(sct)
  IN  typeMatch /\ disasterMatch /\ cityMatch

\* normalizedType without the 'Green Infrastructure' synonym
normalizedType_NoGreenInfrastructure(props) ==
  LET type == Or(resolveType(props), Str(sUnknown))
  IN  IF type = Str(sBlue \o sInfrastructure) \/ type = Str(sBlue) THEN Str(sBlue)
      ELSE IF type = Str(sGreen) THEN Str(sGreen)
      ELSE IF type = Str(sGrey \o sInfrastructure) \/ type = Str(sGrey) THEN Str(sGrey)
      ELSE IF type = Str(sHybrid) THEN Str(sHybrid)
      ELSE type

\* the bucket name of one feature: type || 'Unknown', then the synonyms
normalizedType(props) ==
  LET type == Or(resolveType(props), Str(sUnknown))
  IN  IF type = Str(sBlue \o sInfrastructure) \/ type = Str(sBlue) THEN Str(sBlue)
      ELSE IF type = Str(sGreen \o sInfrastructure) \/ type = Str(sGreen) THEN Str(sGreen)
      ELSE IF type = Str(sGrey \o sInfrastructure) \/ type = Str(sGrey) THEN Str(sGrey)
      ELSE IF type = Str(sHybrid) THEN Str(sHybrid)
      ELSE type

\* typeCounts[name] = (typeCounts[name] || 0) + 1, keys kept in insertion order
addCount(counts, name) ==
  IF \E j \in 1..Len(counts) : counts[j].name = name
    THEN [j \in 1..Len(counts) |->
            IF counts[j].name = name
              THEN [counts[j] EXCEPT !.value = @ + 1] ELSE counts[j]]
    ELSE Append(counts, [name |-> name, value |-> 1])

RECURSIVE countTypes(_, _, _)
countTypes(features, idx, counts) ==
  IF idx = <<>> THEN counts
  ELSE countTypes(features, Tail(idx),
         addCount(counts, normalizedType(features[Head(idx)].props)))

\* colors[name] || '#95a5a6'
pieColor(name) ==
  CASE name = Str(sBlue) -> "#3498db"
    [] name = Str(sGreen) -> "#27ae60"
    [] name = Str(sGrey) -> "#95a5a6"
    [] name = Str(sHybrid) -> "#9b59b6"
    [] name = Str(sUnknown) -> "#95a5a6"
    [] OTHER -> "#95a5a6"

\* Array.prototype.sort((a, b) => b.value - a.value): stable, by count descending
RECURSIVE sortByValueDesc(_)
sortByValueDesc(entries) ==
  IF entries = <<>> THEN <<>>
  ELSE LET best == CHOOSE i \in 1..Len(entries) :
                     /\ \A j \in 1..Len(entries) : entries[j].value <= entries[i].value
                     /\ \A j \in 1..(i - 1) : entries[j].value < entries[i].value
       IN  <<entries[best]>> \o
             sortByValueDesc(SubSeq(entries, 1, best - 1) \o
                             SubSeq(entries, best + 1, Len(entries)))

pieChartDataOf(data, selTypes, selFocus, selCity) ==
  IF data.isNull THEN <<>>
  ELSE LET filteredFeatures ==
             SelectSeq(Indices(Len(data.features)),
               LAMBDA i : pieFilter(data.features[i].props, selTypes, selFocus, selCity))
           typeCounts == countTypes(data.features, filteredFeatures, <<>>)
       IN  sortByValueDesc([j \in 1..Len(typeCounts) |->
             [name |-> typeCounts[j].name, value |-> typeCounts[j].value,
              color |-> pieColor(typeCounts[j].name)]])

(***************************************************************************)
(* searchProjects (src/utils/searchProjects.js): the ranking function of   *)
(* the search box.  A field contributes its exact weight when its lower-   *)
(* cased value equals the normalized query, its partial weight when it     *)
(* contains it, and nothing otherwise.                                     *)
(***************************************************************************)
\* the most results searchProjects returns
MaxResults == 10

NameExact == 100
NamePartial == 50
CityTypeExact == 40
CityTypePartial == 20
CategoryFocusExact == 20
CategoryFocusPartial == 10
DescriptionExact == 10
DescriptionPartial == 5

\* the searchable fields of a record, each with its two weights
searchFields(props) ==
  << [value |-> Or(Get(props, "Project_Na"), Get(props, "Project Name")),
      exact |-> NameExact, partial |-> NamePartial],
     [value |-> Or(Get(props, "NAME"), Get(props, "City")),
      exact |-> CityTypeExact, partial |-> CityTypePartial],
     [value |-> resolveType(props),
      exact |-> CityTypeExact, partial |-> CityTypePartial],
     [value |-> Get(props, "Categories"),
      exact |-> CategoryFocusExact, partial |-> CategoryFocusPartial],
     [value |-> resolveDisasterFocus(props),
      exact |-> CategoryFocusExact, partial |-> CategoryFocusPartial],
     [value |-> Or(Get(props, "New_15_25_"),
                   Get(props, "New 15-25 Words Project Description")),
      exact |-> DescriptionExact, partial |-> DescriptionPartial] >>

\* fieldScore that gives an equal value only the weight of a contained one
fieldScore_ExactAsPartial(field, q) ==
  IF field.value.k # "str" THEN 0
  ELSE IF includes(toLowerCase(field.value.s), q) THEN field.partial
  ELSE 0

\* the contribution of one field to the score; q is the normalized query
fieldScore(field, q) ==
  IF field.value.k # "str" THEN 0
  ELSE LET v == toLowerCase(field.value.s)
       IN  IF v = q THEN field.exact
           ELSE IF includes(v, q) THEN field.partial
           ELSE 0

RECURSIVE sumFieldScores(_, _)
sumFieldScores(fields, q) ==
  IF fields = <<>> THEN 0
  ELSE fieldScore(Head(fields), q) + sumFieldScores(Tail(fields), q)

\* the relevance score of a record for the normalized query q
recordScore(props, q) == sumFieldScores(searchFields(props), q)

\* a sort by descending score that takes the last of equal scores first
RECURSIVE sortByScoreDesc_Unstable(_)
sortByScoreDesc_Unstable(scored) ==
  IF scored = <<>> THEN <<>>
  ELSE LET best == CHOOSE i \in 1..Len(scored) :
                     /\ \A j \in 1..Len(scored) : scored[j].score <= scored[i].score
                     /\ \A j \in (i + 1)..Len(scored) : scored[j].score < scored[i].score
       IN  <<scored[best]>> \o
             sortByScoreDesc_Unstable(SubSeq(scored, 1, best - 1) \o
                                      SubSeq(scored, best + 1, Len(scored)))

\* stable sort of the scored records by descending score
RECURSIVE sortByScoreDesc(_)
sortByScoreDesc(scored) ==
  IF scored = <<>> THEN <<>>
  ELSE LET best == CHOOSE i \in 1..Len(scored) :
                     /\ \A j \in 1..Len(scored) : scored[j].score <= scored[i].score
                     /\ \A j \in 1..(i - 1) : scored[j].score < scored[i].score
       IN  <<scored[best]>> \o
             sortByScoreDesc(SubSeq(scored, 1, best - 1) \o
                             SubSeq(scored, best + 1, Len(scored)))

\* no slice
truncate_Nothing(scored) == scored

\* slice(0, MaxResults)
truncate(scored) ==
  SubSeq(scored, 1, IF Len(scored) < MaxResults THEN Len(scored) ELSE MaxResults)

\* every record with its score for the normalized query q
scoreAll(features, q) ==
  [i \in 1..Len(features) |-> [index |-> i, score |-> recordScore(features[i].props, q)]]

\* the result list, as the positions of the records in data.features
searchProjects(query, data) ==
  IF trim(query) = <<>> \/ data.isNull THEN <<>>
  ELSE LET q == toLowerCase(trim(query))
           matched == SelectSeq(scoreAll(data.features, q), LAMBDA r : r.score > 0)
           top == truncate(sortByScoreDesc(matched))
       IN  [j \in 1..Len(top) |-> top[j].index]

(***************************************************************************)
(* Input collections of the project fetch and the queries typed.           *)
(***************************************************************************)
\* twelve valid projects of one city and type that all match "ab", with
\* equal scores at several places and the best matches not first
bigNames == << JsNull, Str(sxab), Str(sab), JsNull, Str(sxab), Str(sAB),
               JsNull, Str(sabab), Str(sab), JsNull, Str(sxab), Str(sabab) >>
bigDescriptions == << Str(sab), JsNull, JsNull, Str(sxab), JsNull, Str(sab),
                      Str(sab), JsNull, Str(scd), Str(sabab), JsNull, Str(sxab) >>

BigFeatures ==
  [i \in 1..12 |->
     Feature("Point", 100 * i, 100,
       [Infrastruc |-> Str(sBlue), NAME |-> Str(sMiami),
        Project_Na |-> bigNames[i], New_15_25_ |-> bigDescriptions[i]])]

\* a collection whose second feature has geometry: null
NullGeometryFeatures ==
  << Feature("Point", 10, 10, [Infrastruc |-> Str(sBlue), Project_Na |-> Str(sab)]),
     Feature("null", 0, 0, [Infrastruc |-> Str(sGreen), Project_Na |-> Str(sAB)]),
     Feature("PointNaN", 0, 0, [Infrastruc |-> Str(sGrey), Project_Na |-> Str(sxab)]) >>

Collections == {MixedFeatures, BigFeatures, NullGeometryFeatures}

\* what the user may have typed into the search input
Queries == { <<>>, <<" ">>, <<" ">> \o sAB \o <<" ">>, <<"z", "z">>, <<"b">> }

(***************************************************************************)
(* The state of the App component.                                         *)
(***************************************************************************)
VARIABLES
  phase,                  \* "boot": before the init effect; "map": map created,
                          \* load event not yet handled; "csv", "census": the
                          \* load handler awaits that fetch; "ready": the load
                          \* handler has returned, or the init effect has
                          \* stopped for want of a token
  fetched,                \* per data file, the outcomes of the fetch() calls made
  mapCurrent,             \* map.current is set
  loading, error,         \* useState loading / error ("" for null)
  highlight,              \* a call of highlightText: its arguments and, once it
                          \* has returned, the children of the fragment
  projectsResponse,       \* the body of the Cities_FeaturesToJSON.geojson response
                          \* as response.json() returned it (data)
  allProjectsData,        \* useState allProjectsData
  allMarkers,             \* useState allMarkers: [feature, display] per marker,
                          \* feature the position of marker.feature in the data,
                          \* display FALSE when style.display is 'none'
  activeFeature,          \* position of the active feature in the data, 0 for null
  isSwitchingFeatureRef,  \* useRef isSwitchingFeatureRef
  switchTimers,           \* number of pending 100 ms timers that reset the ref
  selectedTypes, selectedDisasterFocus, selectedCity,
  searchQuery, searchResults, showSearchResults, selectedResultIndex,
  queryEffectDue,         \* a dependency of the search query effect changed
  markerEffectDue,        \* a dependency of the marker filter effect changed
  pred3PEDataRef,         \* useRef pred3PEDataRef: set of <<geoid, value>>
  censusResponse,         \* the body of the femaindex.geojson response (rawGeojson)
  censusDataRef,          \* useRef censusDataRef
  censusStats,            \* useState censusStats (and censusStatsRef)
  censusLayersReady,      \* useState censusLayersReady
  activeCensusView,       \* useState activeCensusView: "none", "risk", "pred3pe"
  censusVisible,          \* useState censusVisible
  censusViewRef,          \* useRef censusViewRef
  censusVisibleRef,       \* useRef censusVisibleRef
  censusEffectDue,        \* a dependency of the census effects changed
  censusLayers,           \* per census layer of the map style its 'visibility'
                          \* ("visible", "none"), "absent" when the style lacks it
  bufferSource,           \* the style has the source 'marker-buffers'
  bufferLayer,            \* the style has the layer 'marker-buffers'
  styleLoad,              \* "idle"; after toggleMapStyle "fetching" while the old
                          \* style is still in place, then "swapped" until the
                          \* once('styledata') callback has run
  isSatelliteView,        \* useState isSatelliteView
  isHoveringMarkerRef,    \* useRef isHoveringMarkerRef
  hoveredCensusIdRef,     \* useRef hoveredCensusIdRef: a tract id, 0 for null
  hoverState,             \* the tract ids whose feature state has hover: true
  overMarker,             \* the pointer is over a marker element (between its
                          \* mouseenter and its mouseleave)
  overBuffer,             \* the pointer is inside a polygon of 'marker-buffers'
  last                    \* the handler or effect that ran last

vars == << phase, fetched, mapCurrent, loading, error, highlight, projectsResponse,
           allProjectsData, allMarkers,
           activeFeature, isSwitchingFeatureRef, switchTimers, selectedTypes,
           selectedDisasterFocus, selectedCity, searchQuery, searchResults,
           showSearchResults, selectedResultIndex, queryEffectDue,
           markerEffectDue, pred3PEDataRef, censusResponse, censusDataRef,
           censusStats, censusLayersReady, activeCensusView, censusVisible,
           censusViewRef, censusVisibleRef, censusEffectDue, censusLayers,
           bufferSource, bufferLayer, styleLoad, isSatelliteView,
           isHoveringMarkerRef, hoveredCensusIdRef, hoverState, overMarker,
           overBuffer, last >>

searchVars == << searchQuery, searchResults, showSearchResults, selectedResultIndex >>
filterVars == << selectedTypes, selectedDisasterFocus, selectedCity >>
loadVars == << phase, fetched, mapCurrent, loading, error, allProjectsData >>
censusVars == << pred3PEDataRef, censusResponse, censusDataRef, censusStats,
                censusLayersReady >>
switchVars == << activeFeature, isSwitchingFeatureRef, switchTimers >>
viewVars == << activeCensusView, censusVisible, censusViewRef, censusVisibleRef >>
styleVars == << censusLayers, bufferLayer, styleLoad, isSatelliteView >>
hoverVars == << isHoveringMarkerRef, hoveredCensusIdRef, hoverState, overMarker,
               overBuffer >>
mapVars == << viewVars, censusEffectDue, styleVars, bufferSource, hoverVars >>
\* what the handlers of the search box, the filters and the markers leave alone
backgroundVars == << highlight, projectsResponse, mapVars, censusVars >>

\* React runs the effects of a commit before it handles the next event
Settled == ~queryEffectDue /\ ~markerEffectDue

\* no fetch() call has been made
NoFetch == [file \in {"districts", "projects", "csv", "census"} |-> <<>>]

\* censusStats: null
NullStats ==
  [isNull |-> TRUE,
   risk |-> [ratings |-> <<>>, count |-> 0],
   population |-> [min |-> JsNull, mid |-> JsNull, max |-> JsNull],
   pred3PE |-> [min |-> JsNull, mid |-> JsNull, max |-> JsNull],
   counts |-> [total |-> 0, missingRisk |-> 0, missingPopulation |-> 0,
               missingPred3PE |-> 0]]

\* no census layer in the style
NoLayers == [risk |-> "absent", pred3pe |-> "absent", outline |-> "absent"]

\* the census view, the style and the pointer before the census load; the
\* project part of the load handler adds the source 'marker-buffers'
MapVarsInitial(bufferSourceAdded) ==
  /\ activeCensusView = "risk"
  /\ censusVisible = TRUE
  /\ censusViewRef = "risk"
  /\ censusVisibleRef = TRUE
  /\ censusEffectDue = FALSE
  /\ censusLayers = NoLayers
  /\ bufferSource = bufferSourceAdded
  /\ bufferLayer = FALSE
  /\ styleLoad = "idle"
  /\ isSatelliteView = FALSE
  /\ isHoveringMarkerRef = FALSE
  /\ hoveredCensusIdRef = 0
  /\ hoverState = {}
  /\ overMarker = FALSE
  /\ overBuffer = FALSE

\* no call of highlightText has been made
NoHighlight == [text |-> Undefined, query |-> Undefined, returned |-> FALSE, children |-> <<>>]

\* the state of the component after construction
Constructed ==
  /\ MapVarsInitial(FALSE)
  /\ phase = "boot"
  /\ fetched = NoFetch
  /\ pred3PEDataRef = {}
  /\ censusResponse = NullData
  /\ censusDataRef = NullData
  /\ censusStats = NullStats
  /\ censusLayersReady = FALSE
  /\ mapCurrent = FALSE
  /\ loading = TRUE
  /\ error = ""
  /\ projectsResponse = NullData
  /\ allProjectsData = NullData
  /\ allMarkers = <<>>
  /\ activeFeature = 0
  /\ isSwitchingFeatureRef = FALSE
  /\ switchTimers = 0
  /\ selectedTypes = <<>>
  /\ selectedDisasterFocus = <<>>
  /\ selectedCity = <<>>
  /\ searchQuery = <<>>
  /\ searchResults = <<>>
  /\ showSearchResults = FALSE
  /\ selectedResultIndex = -1
  /\ queryEffectDue = FALSE
  /\ markerEffectDue = FALSE
  /\ last = "init"

Init ==
  /\ Constructed
  /\ highlight = NoHighlight

(***************************************************************************)
(* Start-up: the init effect and the map's load handler (project part).    *)
(***************************************************************************)
\* the init effect: without an access token it sets the error and stops
InitEffect ==
  /\ phase = "boot"
  /\ \E token \in BOOLEAN :
       IF ~token
         THEN /\ error' = "Mapbox access token is not configured"
              /\ loading' = FALSE
              /\ phase' = "ready"
              /\ mapCurrent' = FALSE
              /\ UNCHANGED fetched
         ELSE /\ mapCurrent' = TRUE
              /\ phase' = "map"
              /\ fetched' = [fetched EXCEPT !["districts"] = Append(@, "started")]
              /\ UNCHANGED << error, loading >>
  /\ last' = "InitEffect"
  /\ UNCHANGED << backgroundVars, allProjectsData, allMarkers, switchVars, filterVars, searchVars,
                  queryEffectDue, markerEffectDue >>

\* a feature the marker loop keeps: a Point with two finite numbers
validPoint(f) == f.geom = "Point"

\* properties['NAME'] = properties['NAME'].trim(), the same for 'City'
trimCityInPlace(props) ==
  LET cityField == Or(Get(props, "NAME"), Get(props, "City"))
  IN  IF ~Truthy(cityField) THEN props
      ELSE [key \in DOMAIN props |->
              IF key \in {"NAME", "City"} /\ Truthy(props[key])
                THEN Str(trim(props[key].s)) ELSE props[key]]

\* the collection after the marker loop has run over it
afterMarkerLoop(features) ==
  [i \in 1..Len(features) |->
     IF validPoint(features[i])
       THEN [features[i] EXCEPT !.props = trimCityInPlace(@)]
       ELSE features[i]]

\* the markers array the loop builds; every new marker is displayed
buildMarkers(features) ==
  LET valid == SelectSeq(Indices(Len(features)), LAMBDA i : validPoint(features[i]))
  IN  [j \in 1..Len(valid) |-> [feature |-> valid[j], display |-> TRUE]]

\* feature.geometry.coordinates of bufferFeatures throws on geometry: null
\* and createCircleBuffer(undefined) on a geometry without coordinates
bufferFeaturesThrows(features) ==
  \E i \in 1..Len(features) : features[i].geom \in {"null", "NoCoordinates"}

\* the project part of map.on('load'): fetch, setAllProjectsData, buffers,
\* markers, setAllMarkers, setLoading(false); the catch sets the error.
\* The marker loop trims the city of the features of data itself, which is
\* the object allProjectsData holds.
LoadProjectsFrom(C) ==
  /\ phase = "map"
  /\ phase' = "csv"
  /\ loading' = FALSE
  /\ \E ok \in BOOLEAN : \E features \in C :
     /\ fetched' = [fetched EXCEPT
                      !["projects"] = Append(@, IF ok THEN "ok" ELSE "failed")]
     /\ IF ~ok
         THEN /\ error' = "Unable to load project data"
              /\ UNCHANGED << projectsResponse, allProjectsData, allMarkers,
                                markerEffectDue, queryEffectDue, bufferSource >>
         ELSE IF bufferFeaturesThrows(features)
           THEN /\ projectsResponse' = Data(features)
                /\ allProjectsData' = Data(features)
                /\ error' = "Unable to load project data"
                /\ queryEffectDue' = TRUE
                /\ UNCHANGED << allMarkers, markerEffectDue, bufferSource >>
           ELSE /\ projectsResponse' = Data(features)
                /\ allProjectsData' = Data(afterMarkerLoop(features))
                /\ allMarkers' = buildMarkers(features)
                /\ queryEffectDue' = TRUE
                /\ markerEffectDue' = TRUE
                /\ bufferSource' = TRUE
                /\ UNCHANGED error
  /\ last' = "LoadProjects"
  /\ UNCHANGED << highlight, censusVars, mapCurrent, switchVars, filterVars, searchVars,
                  viewVars, censusEffectDue, styleVars, hoverVars >>

LoadProjects == LoadProjectsFrom(Collections)

(***************************************************************************)
(* The search box.                                                         *)
(***************************************************************************)
\* QueryEffect without setShowSearchResults(false) for a blank query
QueryEffect_BlankKeepsDropdown ==
  /\ queryEffectDue
  /\ queryEffectDue' = FALSE
  /\ IF trim(searchQuery) = <<>>
       THEN /\ searchResults' = <<>>
            /\ selectedResultIndex' = -1
            /\ UNCHANGED showSearchResults
       ELSE /\ searchResults' = searchProjects(searchQuery, allProjectsData)
            /\ showSearchResults' = TRUE
            /\ selectedResultIndex' = -1
  /\ last' = "QueryEffect"
  /\ UNCHANGED << backgroundVars, loadVars, allMarkers, switchVars, filterVars, searchQuery,
                  markerEffectDue >>

\* QueryEffect with setShowSearchResults(results.length > 0)
QueryEffect_HidesEmptyResults ==
  /\ queryEffectDue
  /\ queryEffectDue' = FALSE
  /\ IF trim(searchQuery) = <<>>
       THEN /\ searchResults' = <<>>
            /\ showSearchResults' = FALSE
            /\ selectedResultIndex' = -1
       ELSE /\ searchResults' = searchProjects(searchQuery, allProjectsData)
            /\ showSearchResults' = (Len(searchProjects(searchQuery, allProjectsData)) > 0)
            /\ selectedResultIndex' = -1
  /\ last' = "QueryEffect"
  /\ UNCHANGED << backgroundVars, loadVars, allMarkers, switchVars, filterVars, searchQuery,
                  markerEffectDue >>

\* QueryEffect that keeps a result list it has already computed
QueryEffect_KeepsStaleResults ==
  /\ queryEffectDue
  /\ queryEffectDue' = FALSE
  /\ IF trim(searchQuery) = <<>>
       THEN /\ searchResults' = <<>>
            /\ showSearchResults' = FALSE
            /\ selectedResultIndex' = -1
       ELSE /\ searchResults' = IF searchResults # <<>> THEN searchResults
                                ELSE searchProjects(searchQuery, allProjectsData)
            /\ showSearchResults' = TRUE
            /\ selectedResultIndex' = -1
  /\ last' = "QueryEffect"
  /\ UNCHANGED << backgroundVars, loadVars, allMarkers, switchVars, filterVars, searchQuery,
                  markerEffectDue >>

\* QueryEffect without setSelectedResultIndex(-1)
QueryEffect_KeepsIndex ==
  /\ queryEffectDue
  /\ queryEffectDue' = FALSE
  /\ IF trim(searchQuery) = <<>>
       THEN /\ searchResults' = <<>>
            /\ showSearchResults' = FALSE
       ELSE /\ searchResults' = searchProjects(searchQuery, allProjectsData)
            /\ showSearchResults' = TRUE
  /\ last' = "QueryEffect"
  /\ UNCHANGED << backgroundVars, loadVars, allMarkers, switchVars, filterVars,
                  searchQuery, selectedResultIndex, markerEffectDue >>

\* the search query effect, dependencies [searchQuery, allProjectsData]
QueryEffect ==
  /\ queryEffectDue
  /\ queryEffectDue' = FALSE
  /\ IF trim(searchQuery) = <<>>
       THEN /\ searchResults' = <<>>
            /\ showSearchResults' = FALSE
            /\ selectedResultIndex' = -1
       ELSE /\ searchResults' = searchProjects(searchQuery, allProjectsData)
            /\ showSearchResults' = TRUE
            /\ selectedResultIndex' = -1
  /\ last' = "QueryEffect"
  /\ UNCHANGED << backgroundVars, loadVars, allMarkers, switchVars, filterVars, searchQuery,
                  markerEffectDue >>

\* the search bar is rendered once loading is false
SearchBarRendered == ~loading /\ Settled

\* onChange of the search input, the new value drawn from the set Q
ChangeQueryTo(Q) ==
  /\ SearchBarRendered
  /\ \E q \in Q :
       /\ q # searchQuery
       /\ searchQuery' = q
  /\ showSearchResults' = TRUE
  /\ queryEffectDue' = TRUE
  /\ last' = "ChangeQuery"
  /\ UNCHANGED << backgroundVars, loadVars, allMarkers, switchVars, filterVars, searchResults,
                  selectedResultIndex, markerEffectDue >>

ChangeQuery == ChangeQueryTo(Queries)

\* onFocus of the search input
FocusInput ==
  /\ SearchBarRendered
  /\ showSearchResults' = IF Len(searchResults) > 0 THEN TRUE ELSE showSearchResults
  /\ last' = "FocusInput"
  /\ UNCHANGED << backgroundVars, loadVars, allMarkers, switchVars, filterVars, searchQuery,
                  searchResults, selectedResultIndex, queryEffectDue, markerEffectDue >>

\* onClick of the clear button, which is visible while searchQuery is not ''
ClearSearch ==
  /\ SearchBarRendered
  /\ searchQuery # <<>>
  /\ searchQuery' = <<>>
  /\ searchResults' = <<>>
  /\ showSearchResults' = FALSE
  /\ selectedResultIndex' = -1
  /\ queryEffectDue' = TRUE
  /\ last' = "ClearSearch"
  /\ UNCHANGED << backgroundVars, loadVars, allMarkers, switchVars, filterVars, markerEffectDue >>

\* mousedown outside the search container, bound while the dropdown flag is set
ClickOutside ==
  /\ SearchBarRendered
  /\ showSearchResults
  /\ showSearchResults' = FALSE
  /\ last' = "ClickOutside"
  /\ UNCHANGED << backgroundVars, loadVars, allMarkers, switchVars, filterVars, searchQuery,
                  searchResults, selectedResultIndex, queryEffectDue, markerEffectDue >>

\* |a - b| < 0.0001 in units of 0.00005 degree
CoordTolerance == 2

abs(n) == IF n < 0 THEN 0 - n ELSE n

\* allMarkers.find(..): the first marker within the tolerance, 0 for undefined
findMarker(f) ==
  LET near(j) == LET g == allProjectsData.features[allMarkers[j].feature]
                 IN  abs(g.x - f.x) < CoordTolerance /\ abs(g.y - f.y) < CoordTolerance
  IN  IF \E j \in 1..Len(allMarkers) : near(j)
        THEN CHOOSE j \in 1..Len(allMarkers) : near(j) /\ \A h \in 1..(j - 1) : ~near(h)
        ELSE 0

\* navigateToProject(feature), feature given by its position i in the data.
\* It returns early without a map or a geometry; flyTo rejects a center that
\* is not a pair of numbers, which ends the handler before any state is set.
\* maxTimers bounds the number of pending reset timers.
navigateToProjectWithin(i, maxTimers) ==
  LET f == allProjectsData.features[i]
      marker == findMarker(f)
  IN  IF ~mapCurrent \/ f.geom # "Point"
        THEN UNCHANGED << allMarkers, switchVars, searchQuery, showSearchResults,
                          selectedResultIndex, queryEffectDue, markerEffectDue >>
        ELSE /\ switchTimers < maxTimers
             /\ allMarkers' = IF marker # 0
                                THEN [allMarkers EXCEPT ![marker].display = TRUE]
                                ELSE allMarkers
             /\ isSwitchingFeatureRef' = TRUE
             /\ activeFeature' = i
             /\ switchTimers' = switchTimers + 1
             /\ showSearchResults' = FALSE
             /\ searchQuery' = <<>>
             /\ selectedResultIndex' = -1
             /\ queryEffectDue' = (searchQuery # <<>>)
             /\ markerEffectDue' = (activeFeature # i)

navigateToProject(i) == navigateToProjectWithin(i, MaxTimers)

\* the keydown listener, bound while the dropdown flag is set
KeyDown ==
  /\ SearchBarRendered
  /\ showSearchResults
  /\ \E key \in {"ArrowDown", "ArrowUp", "Enter", "Escape"} :
       /\ last' = key
       /\ IF Len(searchResults) = 0
            THEN UNCHANGED << allMarkers, switchVars, searchQuery, showSearchResults,
                              selectedResultIndex, queryEffectDue, markerEffectDue >>
          ELSE CASE key = "ArrowDown" ->
                      /\ selectedResultIndex' =
                           IF selectedResultIndex < Len(searchResults) - 1
                             THEN selectedResultIndex + 1 ELSE selectedResultIndex
                      /\ UNCHANGED << allMarkers, switchVars, searchQuery,
                                      showSearchResults, queryEffectDue, markerEffectDue >>
                 [] key = "ArrowUp" ->
                      /\ selectedResultIndex' =
                           IF selectedResultIndex > 0 THEN selectedResultIndex - 1 ELSE -1
                      /\ UNCHANGED << allMarkers, switchVars, searchQuery,
                                      showSearchResults, queryEffectDue, markerEffectDue >>
                 [] key = "Enter" ->
                      LET index == IF selectedResultIndex >= 0 THEN selectedResultIndex ELSE 0
                      IN  IF index + 1 <= Len(searchResults)
                            THEN navigateToProject(searchResults[index + 1])
                            ELSE UNCHANGED << allMarkers, switchVars, searchQuery,
                                              showSearchResults, selectedResultIndex,
                                              queryEffectDue, markerEffectDue >>
                 [] key = "Escape" ->
                      /\ showSearchResults' = FALSE
                      /\ searchQuery' = <<>>
                      /\ selectedResultIndex' = -1
                      /\ queryEffectDue' = (searchQuery # <<>>)
                      /\ UNCHANGED << allMarkers, switchVars, markerEffectDue >>
  /\ UNCHANGED << backgroundVars, loadVars, filterVars, searchResults >>

\* onClick of a row of the results dropdown
ClickResultWithin(maxTimers) ==
  /\ SearchBarRendered
  /\ showSearchResults
  /\ \E r \in 1..Len(searchResults) : navigateToProjectWithin(searchResults[r], maxTimers)
  /\ last' = "ClickResult"
  /\ UNCHANGED << backgroundVars, loadVars, filterVars, searchResults >>

ClickResult == ClickResultWithin(MaxTimers)

\* the "No projects found" message is rendered
NoResultsMessage ==
  showSearchResults /\ trim(searchQuery) # <<>> /\ Len(searchResults) = 0

\* the results dropdown is rendered
ResultsDropdown == showSearchResults /\ Len(searchResults) > 0

(***************************************************************************)
(* The filter sidebar.                                                     *)
(***************************************************************************)
sNull == <<"N", "u", "l", "l">>

\* getUniqueValues(field) for a field that is not the city, as a set
getUniqueValues(field) ==
  IF allProjectsData.isNull THEN {}
  ELSE { v \in { Get(allProjectsData.features[i].props, field) :
                   i \in 1..Len(allProjectsData.features) } :
           Truthy(v) /\ v # Str(sNull) }

\* getUniqueValues('NAME'): NAME, else City, trimmed
uniqueCities ==
  IF allProjectsData.isNull THEN {}
  ELSE { v \in { resolveCity(allProjectsData.features[i].props) :
                   i \in 1..Len(allProjectsData.features) } :
           Truthy(v) /\ v # Str(sNull) }

uniqueTypes ==
  IF getUniqueValues("Infrastruc") # {} THEN getUniqueValues("Infrastruc")
  ELSE IF getUniqueValues("Infrastructure Type") # {}
    THEN getUniqueValues("Infrastructure Type")
  ELSE getUniqueValues("Type")

uniqueDisasterFocus ==
  IF getUniqueValues("Disaster_F") # {} THEN getUniqueValues("Disaster_F")
  ELSE getUniqueValues("Disaster Focus")

\* arr.filter(t => t !== v)
without(arr, v) == SelectSeq(arr, LAMBDA t : t # v)

\* onChange of a type check box: tick appends, untick filters out
ToggleType ==
  /\ Settled
  /\ \E type \in uniqueTypes :
       IF arrayIncludes(selectedTypes, type)
         THEN selectedTypes' = without(selectedTypes, type)
         ELSE /\ Len(selectedTypes) < MaxSelected
              /\ selectedTypes' = Append(selectedTypes, type)
  /\ markerEffectDue' = TRUE
  /\ last' = "ToggleType"
  /\ UNCHANGED << backgroundVars, loadVars, allMarkers, switchVars, selectedDisasterFocus,
                  selectedCity, searchVars, queryEffectDue >>

\* the Clear button under the type check boxes
ClearTypes ==
  /\ Settled
  /\ Len(selectedTypes) > 0
  /\ selectedTypes' = <<>>
  /\ markerEffectDue' = TRUE
  /\ last' = "ClearTypes"
  /\ UNCHANGED << backgroundVars, loadVars, allMarkers, switchVars, selectedDisasterFocus,
                  selectedCity, searchVars, queryEffectDue >>

\* onChange of a disaster focus check box
ToggleDisasterFocus ==
  /\ Settled
  /\ \E focus \in uniqueDisasterFocus :
       IF arrayIncludes(selectedDisasterFocus, focus)
         THEN selectedDisasterFocus' = without(selectedDisasterFocus, focus)
         ELSE /\ Len(selectedDisasterFocus) < MaxSelected
              /\ selectedDisasterFocus' = Append(selectedDisasterFocus, focus)
  /\ markerEffectDue' = TRUE
  /\ last' = "ToggleDisasterFocus"
  /\ UNCHANGED << backgroundVars, loadVars, allMarkers, switchVars, selectedTypes, selectedCity,
                  searchVars, queryEffectDue >>

\* the Clear button under the disaster focus check boxes
ClearDisasterFocus ==
  /\ Settled
  /\ Len(selectedDisasterFocus) > 0
  /\ selectedDisasterFocus' = <<>>
  /\ markerEffectDue' = TRUE
  /\ last' = "ClearDisasterFocus"
  /\ UNCHANGED << backgroundVars, loadVars, allMarkers, switchVars, selectedTypes, selectedCity,
                  searchVars, queryEffectDue >>

\* a row of the city dropdown: "All Cities" sets '', a city row its name
SelectCity ==
  /\ Settled
  /\ \E city \in {Str(<<>>)} \cup uniqueCities :
       /\ city.s # selectedCity
       /\ selectedCity' = city.s
  /\ markerEffectDue' = TRUE
  /\ last' = "SelectCity"
  /\ UNCHANGED << backgroundVars, loadVars, allMarkers, switchVars, selectedTypes,
                  selectedDisasterFocus, searchVars, queryEffectDue >>

(***************************************************************************)
(* Markers, the active feature and the filter effect.                      *)
(***************************************************************************)
\* click on a displayed marker element
MarkerClickWithin(maxTimers) ==
  /\ Settled
  /\ switchTimers < maxTimers
  /\ \E m \in 1..Len(allMarkers) :
       /\ allMarkers[m].display
       /\ activeFeature' = allMarkers[m].feature
       /\ markerEffectDue' = (activeFeature # allMarkers[m].feature)
  /\ isSwitchingFeatureRef' = TRUE
  /\ switchTimers' = switchTimers + 1
  /\ last' = "MarkerClick"
  /\ UNCHANGED << backgroundVars, loadVars, allMarkers, filterVars, searchVars, queryEffectDue >>

MarkerClick == MarkerClickWithin(MaxTimers)

\* the setTimeout(.., 100) callback of a switch
SwitchTimerFires ==
  /\ Settled
  /\ switchTimers > 0
  /\ switchTimers' = switchTimers - 1
  /\ isSwitchingFeatureRef' = FALSE
  /\ last' = "SwitchTimerFires"
  /\ UNCHANGED << backgroundVars, loadVars, allMarkers, activeFeature, filterVars, searchVars,
                  queryEffectDue, markerEffectDue >>

\* handlePopupClosed, on the popupClosed event of the open popup
PopupClosed ==
  /\ Settled
  /\ mapCurrent
  /\ activeFeature # 0
  /\ activeFeature' = IF ~isSwitchingFeatureRef THEN 0 ELSE activeFeature
  /\ markerEffectDue' = ~isSwitchingFeatureRef
  /\ last' = "PopupClosed"
  /\ UNCHANGED << backgroundVars, loadVars, allMarkers, isSwitchingFeatureRef, switchTimers,
                  filterVars, searchVars, queryEffectDue >>

\* activeFeature === marker.feature, or both have the same two coordinates
isSameFeature(m) ==
  LET a == allProjectsData.features[activeFeature]
      g == allProjectsData.features[allMarkers[m].feature]
  IN  \/ activeFeature = allMarkers[m].feature
      \/ a.geom \in {"Point", "LineString"} /\ a.geom = g.geom /\ a.x = g.x /\ a.y = g.y

\* the marker filter effect, dependencies [selectedTypes, selectedDisasterFocus,
\* selectedCity, allMarkers, activeFeature]
MarkerEffect ==
  /\ markerEffectDue
  /\ LET show(m) == shouldShow(allProjectsData.features[allMarkers[m].feature].props,
                               selectedTypes, selectedDisasterFocus, selectedCity)
         closes == \E m \in 1..Len(allMarkers) :
                     ~show(m) /\ activeFeature # 0 /\ isSameFeature(m)
     IN  IF Len(allMarkers) = 0 \/ ~mapCurrent
           THEN /\ markerEffectDue' = FALSE
                /\ UNCHANGED << allMarkers, activeFeature >>
           ELSE /\ allMarkers' = [m \in 1..Len(allMarkers) |->
                                    [allMarkers[m] EXCEPT !.display = show(m)]]
                /\ activeFeature' = IF closes THEN 0 ELSE activeFeature
                /\ markerEffectDue' = closes
  /\ last' = "MarkerEffect"
  /\ UNCHANGED << backgroundVars, loadVars, isSwitchingFeatureRef, switchTimers, filterVars,
                  searchVars, queryEffectDue >>

\* the memos of the render
filteredStats ==
  filteredStatsOf(allProjectsData, selectedTypes, selectedDisasterFocus, selectedCity)

pieChartData ==
  pieChartDataOf(allProjectsData, selectedTypes, selectedDisasterFocus, selectedCity)

Next ==
  \/ InitEffect
  \/ LoadProjects
  \/ QueryEffect
  \/ ChangeQuery
  \/ FocusInput
  \/ ClearSearch
  \/ ClickOutside
  \/ KeyDown
  \/ ClickResult
  \/ ToggleType
  \/ ClearTypes
  \/ ToggleDisasterFocus
  \/ ClearDisasterFocus
  \/ SelectCity
  \/ MarkerClick
  \/ SwitchTimerFires
  \/ PopupClosed
  \/ MarkerEffect

Spec == Init /\ [][Next]_vars

TypeOK ==
  /\ phase \in {"boot", "map", "csv", "census", "ready"}
  /\ selectedResultIndex \in -1..MaxResults
  /\ activeFeature \in 0..Len(allProjectsData.features)
  /\ switchTimers \in 0..MaxTimers

(***************************************************************************)
(* The search box: claims C1 to C4.                                        *)
(***************************************************************************)
IsBlank(s) == \A i \in 1..Len(s) : IsSpace(s[i])

\* the "no active search" state
NoActiveSearch ==
  /\ searchResults = <<>>
  /\ ~showSearchResults
  /\ selectedResultIndex = -1
  /\ ~NoResultsMessage

\* C1: whenever the query is empty or all white space and the query effect
\* has run, the result list is empty, the dropdown is hidden, the selected
\* index is -1 and the "no results" message is not shown.
C1_BlankQueryIsNoActiveSearch ==
  (IsBlank(searchQuery) /\ ~queryEffectDue) => NoActiveSearch

\* a white-space query has been typed and the query effect has handled it
C1_Witness ==
  searchQuery = <<" ">> /\ last = "QueryEffect" /\ ~allProjectsData.isNull

\* C2: from every Active state (non-blank query), the one with an empty
\* result list included, Escape and the clear button each empty the query,
\* hide the dropdown and reset the index (the query effect then empties the
\* result list, see C1).
C2_EscapeAndClearLeadToIdle ==
  [][ (~IsBlank(searchQuery) /\ last' \in {"Escape", "ClearSearch"})
        => (searchQuery' = <<>> /\ ~showSearchResults' /\ selectedResultIndex' = -1) ]_vars

\* no searchable field of any record contains the normalized query
NoFieldMatches ==
  \A i \in 1..Len(allProjectsData.features) :
    \A k \in 1..6 :
      LET v == searchFields(allProjectsData.features[i].props)[k].value
      IN  v.k = "str" => ~includes(toLowerCase(v.s), toLowerCase(trim(searchQuery)))

\* C3: when the query effect has run for a non-blank query that matches no
\* field of any record, the result list is empty, the dropdown flag is set
\* and the "no results" message is shown, which is not the "no active
\* search" state.
C3_NoMatchIsNoResultsFound ==
  (last = "QueryEffect" /\ ~IsBlank(searchQuery) /\ NoFieldMatches)
    => (searchResults = <<>> /\ showSearchResults /\ NoResultsMessage /\ ~NoActiveSearch)

\* the effect has run for "zz" over a loaded collection
C3_Witness ==
  /\ last = "QueryEffect"
  /\ searchQuery = <<"z", "z">>
  /\ Len(allProjectsData.features) > 0
  /\ NoResultsMessage

\* C4: the result list in state never has more than 10 entries.
C4_AtMostTenResults == Len(searchResults) <= 10

\* twelve records match the query and ten are in the list
C4_Witness ==
  /\ Len(searchResults) = 10
  /\ Cardinality({ i \in 1..Len(allProjectsData.features) :
       recordScore(allProjectsData.features[i].props,
                   toLowerCase(trim(searchQuery))) > 0 }) = 12

(***************************************************************************)
(* The filter / aggregation engine: claims C7 to C10, checked over the     *)
(* filter changes, the loads and the marker events.                        *)
(***************************************************************************)
NextFilter ==
  \/ InitEffect
  \/ LoadProjects
  \/ QueryEffect
  \/ ToggleType
  \/ ClearTypes
  \/ ToggleDisasterFocus
  \/ ClearDisasterFocus
  \/ SelectCity
  \/ MarkerClick
  \/ SwitchTimerFires
  \/ PopupClosed
  \/ MarkerEffect

FilterSpec == Init /\ [][NextFilter]_vars

Range(seq) == { seq[k] : k \in 1..Len(seq) }

\* the visible set as the claim states it
VisibleByClaim(i) ==
  LET props == allProjectsData.features[i].props
      rawCity == Or(Get(props, "NAME"), Get(props, "City"))
  IN  /\ selectedTypes = <<>> \/ resolveType(props) \in Range(selectedTypes)
      /\ selectedDisasterFocus = <<>>
           \/ resolveDisasterFocus(props) \in Range(selectedDisasterFocus)
      /\ selectedCity = <<>>
           \/ (rawCity.k = "str" /\ trim(rawCity.s) = trim(selectedCity))

VisibleSet == { i \in 1..Len(allProjectsData.features) : VisibleByClaim(i) }

\* the features filteredStats counts
CountedSet ==
  Range(statsFilteredFeatures(allProjectsData, selectedTypes, selectedDisasterFocus,
                              selectedCity))

\* C7: a feature is counted exactly when every dimension is either empty or
\* matched by the feature (resolved type, resolved focus, trimmed city).
C7_VisibleSetIsAndOfOrs ==
  /\ CountedSet = VisibleSet
  /\ filteredStats.projectCount = Cardinality(VisibleSet)

\* two types and a city are selected; a padded city passes, others do not
C7_Witness ==
  /\ Len(selectedTypes) = 2
  /\ selectedCity = sMiami
  /\ Cardinality(VisibleSet) = 2
  /\ \E i \in VisibleSet :
       Get(allProjectsData.features[i].props, "NAME") = Str(<<" ">> \o sMiami)

RECURSIVE SumCostOver(_)
SumCostOver(S) ==
  IF S = {} THEN 0
  ELSE LET i == CHOOSE j \in S : TRUE
       IN  costAdded(allProjectsData.features[i].props) + SumCostOver(S \ {i})

\* C8: project count and total investment rest on the same features: the
\* count is the size of the visible set and the total is the sum of the
\* costs (zero for a missing or unparseable cost) over that set.
C8_CountAndTotalOverSameSet ==
  /\ filteredStats.projectCount = Cardinality(VisibleSet)
  /\ filteredStats.totalInvestment = SumCostOver(VisibleSet)

\* a filter is active, some costly feature is left out and some counted
C8_Witness ==
  /\ selectedDisasterFocus # <<>>
  /\ filteredStats.projectCount > 0
  /\ filteredStats.totalInvestment > 0
  /\ filteredStats.totalInvestment < SumCostOver(1..Len(allProjectsData.features))

RECURSIVE SumValues(_)
SumValues(entries) ==
  IF entries = <<>> THEN 0 ELSE Head(entries).value + SumValues(Tail(entries))

CanonicalBuckets == { Str(sBlue), Str(sGreen), Str(sGrey), Str(sHybrid), Str(sUnknown) }

BucketByClaim(i) ==
  LET type == resolveType(allProjectsData.features[i].props)
  IN  IF type \in {Str(sBlue), Str(sBlue \o sInfrastructure)} THEN Str(sBlue)
      ELSE IF type \in {Str(sGreen), Str(sGreen \o sInfrastructure)} THEN Str(sGreen)
      ELSE IF type \in {Str(sGrey), Str(sGrey \o sInfrastructure)} THEN Str(sGrey)
      ELSE IF type = Str(sHybrid) THEN Str(sHybrid)
      ELSE IF ~Truthy(type) THEN Str(sUnknown)
      ELSE type

RankKeys == {"Project_Na", "NAME", "Infrastruc", "Categories", "Disaster_F", "New_15_25_"}

RankRecords ==
  { (key :> Str(v)) : key \in RankKeys, v \in {sab, sxab} }
    \cup { [Project_Na |-> Str(sAB)],
           [Project_Na |-> Str(scd)],
           [Project_Na |-> Str(sxab), New_15_25_ |-> Str(sab)] }

RankCollections ==
  { << Feature("Point", 100, 100, r1), Feature("Point", 200, 100, r2) >> :
      r1 \in RankRecords, r2 \in RankRecords }
    \cup {BigFeatures}

RankQueries == { <<" ">> \o sAB \o <<" ">>, sab, <<"b">>, <<"z", "z">> }

RankInit ==
  /\ MapVarsInitial(TRUE)
  /\ phase = "csv"
  /\ fetched = [NoFetch EXCEPT !["districts"] = <<"started">>, !["projects"] = <<"ok">>]
  /\ pred3PEDataRef = {}
  /\ censusResponse = NullData
  /\ censusDataRef = NullData
  /\ censusStats = NullStats
  /\ censusLayersReady = FALSE
  /\ mapCurrent = TRUE
  /\ loading = FALSE
  /\ error = ""
  /\ \E features \in RankCollections :
       /\ highlight = NoHighlight
       /\ projectsResponse = Data(features)
       /\ allProjectsData = Data(afterMarkerLoop(features))
       /\ allMarkers = buildMarkers(features)
  /\ activeFeature = 0
  /\ isSwitchingFeatureRef = FALSE
  /\ switchTimers = 0
  /\ selectedTypes = <<>>
  /\ selectedDisasterFocus = <<>>
  /\ selectedCity = <<>>
  /\ searchQuery = <<>>
  /\ searchResults = <<>>
  /\ showSearchResults = FALSE
  /\ selectedResultIndex = -1
  /\ queryEffectDue = FALSE
  /\ markerEffectDue = FALSE
  /\ last = "MarkerEffect"

NextRank ==
  \/ ChangeQueryTo(RankQueries)
  \/ QueryEffect
  \/ ClearSearch

RankSpec == RankInit /\ [][NextRank]_vars

\* the searchable fields in the order name, city, type, category, focus,
\* description, and the weight class of each (4 highest)
FieldClass == <<4, 3, 3, 2, 2, 1>>

\* C5: per field an exact match contributes more than a contained one and no
\* match contributes nothing; a field of a higher class contributes more than
\* one of a lower class for the same kind of match; and a record whose name
\* equals the query is ranked above every record matching only in its
\* description.
C5_ExactAndFieldOrder ==
  (~queryEffectDue /\ ~IsBlank(searchQuery)) =>
    LET q == toLowerCase(trim(searchQuery))
        n == Len(allProjectsData.features)
        val == [i \in 1..n |-> [k \in 1..6 |->
                  searchFields(allProjectsData.features[i].props)[k].value]]
        low == [i \in 1..n |-> [k \in 1..6 |->
                  IF val[i][k].k = "str" THEN toLowerCase(val[i][k].s) ELSE <<>>]]
        exactAt(i, k) == val[i][k].k = "str" /\ low[i][k] = q
        partialAt(i, k) == val[i][k].k = "str" /\ low[i][k] # q /\ includes(low[i][k], q)
        contrib == [i \in 1..n |-> [k \in 1..6 |->
                      fieldScore(searchFields(allProjectsData.features[i].props)[k], q)]]
        onlyDescription(j) ==
          /\ exactAt(j, 6) \/ partialAt(j, 6)
          /\ \A k \in 1..5 : ~exactAt(j, k) /\ ~partialAt(j, k)
        pos(i) == CHOOSE a \in 1..Len(searchResults) : searchResults[a] = i
    IN  /\ \A i \in 1..n : \A k \in 1..6 :
             (~exactAt(i, k) /\ ~partialAt(i, k)) => contrib[i][k] = 0
        /\ \A i, j \in 1..n : \A k \in 1..6 :
             (exactAt(i, k) /\ partialAt(j, k))
               => (contrib[i][k] > contrib[j][k] /\ contrib[j][k] > 0)
        /\ \A i, j \in 1..n : \A k1, k2 \in 1..6 :
             (/\ FieldClass[k1] > FieldClass[k2]
              /\ \/ exactAt(i, k1) /\ exactAt(j, k2)
                 \/ partialAt(i, k1) /\ partialAt(j, k2))
               => contrib[i][k1] > contrib[j][k2]
        /\ \A i, j \in 1..n :
             (exactAt(i, 1) /\ onlyDescription(j) /\ j \in Range(searchResults))
               => (i \in Range(searchResults) /\ pos(i) < pos(j))

\* the second record's name equals the query, the first matches only by its
\* description being equal to it, and the second is listed first
C5_Witness ==
  /\ ~queryEffectDue
  /\ searchQuery = <<" ">> \o sAB \o <<" ">>
  /\ Len(allProjectsData.features) = 2
  /\ allProjectsData.features[1].props = ("New_15_25_" :> Str(sab))
  /\ allProjectsData.features[2].props = ("Project_Na" :> Str(sab))
  /\ searchResults = <<2, 1>>

\* C6: the results are in non-increasing order of score, and records of
\* equal score keep the order they have in the collection.
C6_SortedAndStable ==
  (~queryEffectDue /\ ~IsBlank(searchQuery)) =>
    LET q == toLowerCase(trim(searchQuery))
        score == [a \in 1..Len(searchResults) |->
                    recordScore(allProjectsData.features[searchResults[a]].props, q)]
    IN  \A a, b \in 1..Len(searchResults) :
          a < b => \/ score[a] > score[b]
                   \/ score[a] = score[b] /\ searchResults[a] < searchResults[b]

\* the twelve-record collection, ranked: ties at 100, 50 and 10 in input order
C6_Witness ==
  /\ ~queryEffectDue
  /\ Len(allProjectsData.features) = 12
  /\ searchResults = <<6, 3, 9, 12, 2, 5, 8, 11, 1, 7>>

(***************************************************************************)
(* Total investment over collections of up to three features whose costs   *)
(* are numbers, formatted strings, null, missing or not parseable.         *)
(***************************************************************************)
MaxCostFeatures == 3

sOneMillionPlain == <<"1", "0", "0", "0", "0", "0", "0">>

\* the raw values of the cost property; Undefined stands for a missing key
CostValues ==
  { Num(1000000), Str(sTwoMillion), Str(sOneMillionPlain), JsNull, Undefined,
    Str(sNA), Str(<<>>), Num(0) }

\* the i-th feature of a cost collection: types alternate Blue, Green
CostFeature(i, cost) ==
  Feature("Point", 10 * i, 10,
          IF cost = Undefined
            THEN [Infrastruc |-> Str(IF i % 2 = 1 THEN sBlue ELSE sGreen)]
            ELSE [Infrastruc |-> Str(IF i % 2 = 1 THEN sBlue ELSE sGreen),
                  Estimated_ |-> cost])

CostCollections ==
  UNION { { [i \in 1..n |-> CostFeature(i, costs[i])] : costs \in [1..n -> CostValues] } :
          n \in 1..MaxCostFeatures }

CostInit ==
  /\ MapVarsInitial(TRUE)
  /\ phase = "csv"
  /\ fetched = [NoFetch EXCEPT !["districts"] = <<"started">>, !["projects"] = <<"ok">>]
  /\ mapCurrent = TRUE
  /\ loading = FALSE
  /\ error = ""
  /\ \E features \in CostCollections :
       /\ highlight = NoHighlight
       /\ projectsResponse = Data(features)
       /\ allProjectsData = Data(afterMarkerLoop(features))
       /\ allMarkers = buildMarkers(features)
  /\ activeFeature = 0
  /\ isSwitchingFeatureRef = FALSE
  /\ switchTimers = 0
  /\ selectedTypes = <<>>
  /\ selectedDisasterFocus = <<>>
  /\ selectedCity = <<>>
  /\ searchQuery = <<>>
  /\ searchResults = <<>>
  /\ showSearchResults = FALSE
  /\ selectedResultIndex = -1
  /\ queryEffectDue = FALSE
  /\ markerEffectDue = FALSE
  /\ pred3PEDataRef = {}
  /\ censusResponse = NullData
  /\ censusDataRef = NullData
  /\ censusStats = NullStats
  /\ censusLayersReady = FALSE
  /\ last = "MarkerEffect"

NextCost ==
  \/ ToggleType
  \/ ClearTypes
  \/ MarkerEffect

CostSpec == CostInit /\ [][NextCost]_vars

\* the numeric value of a raw cost as the claim states it
ClaimCost(v) ==
  CASE v.k = "num" -> v.n
    [] v = Str(sTwoMillion) -> 2000000
    [] v = Str(sOneMillionPlain) -> 1000000
    [] OTHER -> 0

RECURSIVE SumClaimCostOver(_)
SumClaimCostOver(S) ==
  IF S = {} THEN 0
  ELSE LET i == CHOOSE j \in S : TRUE
       IN  ClaimCost(Get(allProjectsData.features[i].props, "Estimated_"))
             + SumClaimCostOver(S \ {i})

\* the costs of the features, in order
CostsAre(costs) ==
  /\ Len(allProjectsData.features) = Len(costs)
  /\ \A i \in 1..Len(costs) :
       Get(allProjectsData.features[i].props, "Estimated_") = costs[i]

\* C11: total investment is the sum over the visible features of the numeric
\* value of the cost (a number as it is, a "$2,000,000" string as 2000000,
\* null, missing or unparseable as 0) and every visible feature is counted
\* whatever its cost; costs [1000000, "$2,000,000", null] without a filter
\* give count 3 and total 3000000.
C11_TotalInvestmentIsSumOfNumericCosts ==
  /\ filteredStats.projectCount = Cardinality(VisibleSet)
  /\ filteredStats.totalInvestment = SumClaimCostOver(VisibleSet)
  /\ (CostsAre(<< Num(1000000), Str(sTwoMillion), JsNull >>) /\ selectedTypes = <<>>)
       => filteredStats = [projectCount |-> 3, totalInvestment |-> 3000000]

\* the example of the claim, with no filter selected
C11_Witness ==
  /\ CostsAre(<< Num(1000000), Str(sTwoMillion), JsNull >>)
  /\ selectedTypes = <<>>
  /\ ~markerEffectDue
  /\ filteredStats.totalInvestment = 3000000

(***************************************************************************)
(* Numbers and arrays of the census data.  Array values carry their items  *)
(* in the s field; Infinity is a number that is not finite.                *)
(***************************************************************************)
Arr(items) == [k |-> "arr", s |-> items, n |-> 0]
Infinity == [k |-> "inf", s |-> <<>>, n |-> 1]
Bool(b) == [k |-> "bool", s |-> <<>>, n |-> IF b THEN 1 ELSE 0]

\* typeof v === 'number'
IsNumber(v) == v.k \in {"num", "nan", "inf"}

\* Number.isFinite(v)
IsFinite(v) == v.k = "num"

\* the decimal digits of a natural number
DigitChars == <<"0", "1", "2", "3", "4", "5", "6", "7", "8", "9">>

RECURSIVE digitsOf(_)
digitsOf(n) ==
  IF n < 10 THEN << DigitChars[n + 1] >>
  ELSE digitsOf(n \div 10) \o << DigitChars[(n % 10) + 1] >>

\* String(value) for the primitive values of the model
String(v) ==
  CASE v.k = "str" -> v.s
    [] v.k = "num" -> IF v.n < 0 THEN <<"-">> \o digitsOf(-v.n) ELSE digitsOf(v.n)
    [] v.k = "inf" -> <<"I", "n", "f", "i", "n", "i", "t", "y">>
    [] v.k = "nan" -> <<"N", "a", "N">>
    [] v.k = "bool" -> IF v.n = 1 THEN <<"t", "r", "u", "e">>
                                  ELSE <<"f", "a", "l", "s", "e">>
    [] OTHER -> <<>>

\* replace(/[^0-9eE.+-]/g, ''): the characters that are kept
NumericChars == Digits \cup {"e", "E", ".", "+", "-"}

keepChars(s, keep) == SelectSeq(s, LAMBDA c : c \in keep)

\* the position of the first character of s that is in set, 0 when none
firstIndexIn(s, set) ==
  IF \E i \in 1..Len(s) : s[i] \in set
    THEN CHOOSE i \in 1..Len(s) : s[i] \in set /\ \A j \in 1..(i - 1) : s[j] \notin set
    ELSE 0

allDigits(s) == \A i \in 1..Len(s) : s[i] \in Digits

\* the natural number written by a string of digits (0 for the empty string)
RECURSIVE natOf(_, _)
natOf(s, acc) ==
  IF s = <<>> THEN acc ELSE natOf(Tail(s), acc * 10 + DigitValue(Head(s)))

RECURSIVE pow10(_)
pow10(n) == IF n = 0 THEN 1 ELSE 10 * pow10(n - 1)

\* the largest decimal exponent of a finite double
MaxDoubleExponent == 308

\* Number(s) for a string over NumericChars: the empty string is 0; a
\* decimal literal [+-] digits [. digits] [e [+-] digits] is its value,
\* Infinity beyond the range of a double; anything else is NaN.  (The
\* inputs of the model have no non-zero fraction digit and no negative
\* exponent, so every finite value is an integer.)
Number(s) ==
  IF s = <<>> THEN Num(0)
  ELSE
    LET signed == Head(s) \in {"+", "-"}
        sign == IF Head(s) = "-" THEN -1 ELSE 1
        body == IF signed THEN Tail(s) ELSE s
        ePos == firstIndexIn(body, {"e", "E"})
        mant == IF ePos = 0 THEN body ELSE SubSeq(body, 1, ePos - 1)
        expo == IF ePos = 0 THEN <<>> ELSE SubSeq(body, ePos + 1, Len(body))
        dot == firstIndexIn(mant, {"."})
        intPart == IF dot = 0 THEN mant ELSE SubSeq(mant, 1, dot - 1)
        fracPart == IF dot = 0 THEN <<>> ELSE SubSeq(mant, dot + 1, Len(mant))
        expSigned == expo # <<>> /\ Head(expo) \in {"+", "-"}
        expDigits == IF expSigned THEN Tail(expo) ELSE expo
        expSign == IF expo # <<>> /\ Head(expo) = "-" THEN -1 ELSE 1
        mantOK == /\ allDigits(intPart) /\ allDigits(fracPart)
                  /\ Len(intPart) + Len(fracPart) > 0
        expOK == ePos = 0 \/ (expDigits # <<>> /\ allDigits(expDigits))
        m == natOf(intPart \o fracPart, 0)
        scale == expSign * natOf(expDigits, 0) - Len(fracPart)
    IN  IF ~(mantOK /\ expOK) THEN NaN
        ELSE IF m = 0 THEN Num(0)
        ELSE IF scale > MaxDoubleExponent THEN Infinity
        ELSE IF scale >= 0 THEN Num(sign * m * pow10(scale))
        ELSE Num(sign * (m \div pow10(-scale)))

parseNumericValue(value) ==
  IF value.k \in {"null", "undefined"} THEN JsNull
  ELSE IF IsNumber(value) /\ IsFinite(value) THEN value
  ELSE LET cleaned == keepChars(String(value), NumericChars)
           parsed == Number(cleaned)
       IN  IF IsFinite(parsed) THEN parsed ELSE JsNull

\* a number that is a whole number of halves: the value of min + (max - min) / 2
Half(h) == [k |-> "half", s |-> <<>>, n |-> h]

\* Math.min(...values), Math.max(...values) of a non-empty list of finite numbers
mathMin(values) ==
  CHOOSE v \in { values[i].n : i \in 1..Len(values) } :
    \A i \in 1..Len(values) : v <= values[i].n

mathMax(values) ==
  CHOOSE v \in { values[i].n : i \in 1..Len(values) } :
    \A i \in 1..Len(values) : v >= values[i].n

\* getRangeStats with mid = (max - min) / 2
getRangeStats_MidIsHalfWidth(values) ==
  IF Len(values) = 0 THEN [min |-> JsNull, mid |-> JsNull, max |-> JsNull]
  ELSE LET min == mathMin(values)
           max == mathMax(values)
       IN  [min |-> Num(min), mid |-> Half(max - min), max |-> Num(max)]

getRangeStats(values) ==
  IF Len(values) = 0 THEN [min |-> JsNull, mid |-> JsNull, max |-> JsNull]
  ELSE LET min == mathMin(values)
           max == mathMax(values)
       IN  [min |-> Num(min), mid |-> Half(2 * min + (max - min)), max |-> Num(max)]

(***************************************************************************)
(* The coordinate normalizer.  A geometry is [isNull, type, coordinates];  *)
(* coordinates are nested arrays whose innermost arrays are positions.     *)
(* Projected coordinates are whole metres, geographic ones whole degrees.  *)
(***************************************************************************)
NullGeometry == [isNull |-> TRUE, type |-> "", coordinates |-> Undefined]
Geometry(type, coordinates) ==
  [isNull |-> FALSE, type |-> type, coordinates |-> coordinates]

\* a quarter of originShift (20037508.34 m), which is 45 degrees
QuarterShift == 5009377

\* (v / originShift) * 180, rounded down to a whole degree
shiftToDegrees(v) == (v * 45) \div QuarterShift

\* (180 / PI) * (2 * atan(exp(d * PI / 180)) - PI / 2) in whole degrees at
\* every 45 degrees of d up to 225, linear in between, 89 beyond
MercatorKnots == <<0, 41, 66, 79, 85, 87>>

mercatorLatitude(d) ==
  LET a == IF d < 0 THEN -d ELSE d
      i == a \div 45
      lat == IF i >= 5 THEN 89
             ELSE MercatorKnots[i + 1]
                    + ((MercatorKnots[i + 2] - MercatorKnots[i + 1]) * (a % 45)) \div 45
  IN  IF d < 0 THEN -lat ELSE lat

\* ([x, y]) => [lon, lat]
toWgs84Coordinate(coord) ==
  Arr(<< Num(shiftToDegrees(coord.s[1].n)),
         Num(mercatorLatitude(shiftToDegrees(coord.s[2].n))) >>)

\* typeof coords[0] === 'number' && typeof coords[1] === 'number'
isPosition(coords) ==
  /\ Len(coords.s) >= 2
  /\ IsNumber(coords.s[1])
  /\ IsNumber(coords.s[2])

RECURSIVE transformToWgs84(_)
transformToWgs84(coords) ==
  IF coords.k # "arr" THEN coords
  ELSE IF isPosition(coords) THEN toWgs84Coordinate(coords)
  ELSE Arr([i \in 1..Len(coords.s) |-> transformToWgs84(coords.s[i])])

\* the positions the traverse of walkCoordinates passes to the callback
RECURSIVE traverse(_)
RECURSIVE traverseEach(_)
traverse(coords) ==
  IF coords.k # "arr" THEN <<>>
  ELSE IF isPosition(coords) THEN << coords >>
  ELSE traverseEach(coords.s)

traverseEach(items) ==
  IF items = <<>> THEN <<>> ELSE traverse(Head(items)) \o traverseEach(Tail(items))

walkCoordinates(geometry) ==
  IF geometry.isNull \/ geometry.coordinates.k \in {"undefined", "null"} THEN <<>>
  ELSE traverse(geometry.coordinates)

\* the loop that finds firstCoord: Undefined stands for null
RECURSIVE firstCoordOf(_)
firstCoordOf(features) ==
  IF features = <<>> THEN Undefined
  ELSE LET found == walkCoordinates(Head(features).geometry)
       IN  IF found # <<>> THEN found[1] ELSE firstCoordOf(Tail(features))

\* Math.abs(v) > bound
absExceeds(v, bound) ==
  \/ v.k = "inf"
  \/ v.k = "num" /\ abs(v.n) > bound

\* reprojectFeatureCollectionIfNeeded that reprojects the first feature only
reprojectFeatureCollectionIfNeeded_FirstFeatureOnly(featureCollection) ==
  IF featureCollection.isNull \/ Len(featureCollection.features) = 0
    THEN featureCollection
  ELSE LET firstCoord == firstCoordOf(featureCollection.features)
       IN  IF firstCoord = Undefined THEN featureCollection
           ELSE IF ~(absExceeds(firstCoord.s[1], 180) \/ absExceeds(firstCoord.s[2], 90))
             THEN featureCollection
           ELSE [featureCollection EXCEPT !.features =
                   [i \in 1..Len(@) |->
                      IF @[i].geometry.isNull \/ i > 1 THEN @[i]
                      ELSE [@[i] EXCEPT !.geometry.coordinates = transformToWgs84(@)]]]

reprojectFeatureCollectionIfNeeded(featureCollection) ==
  IF featureCollection.isNull \/ Len(featureCollection.features) = 0
    THEN featureCollection
  ELSE LET firstCoord == firstCoordOf(featureCollection.features)
       IN  IF firstCoord = Undefined THEN featureCollection
           ELSE IF ~(absExceeds(firstCoord.s[1], 180) \/ absExceeds(firstCoord.s[2], 90))
             THEN featureCollection
           ELSE [featureCollection EXCEPT !.features =
                   [i \in 1..Len(@) |->
                      IF @[i].geometry.isNull THEN @[i]
                      ELSE [@[i] EXCEPT !.geometry.coordinates = transformToWgs84(@)]]]

(***************************************************************************)
(* The CSV part of the load handler.  A response body is given as the      *)
(* fields parseCSVLine returns for each non-blank line: the header names   *)
(* and the rows.                                                           *)
(***************************************************************************)
s1400000US == <<"1", "4", "0", "0", "0", "0", "0", "U", "S">>
s12 == <<"1", "2">>
s13 == <<"1", "3">>
s14 == <<"1", "4">>
s10 == <<"1", "0">>
s20 == <<"2", "0">>
s30 == <<"3", "0">>

CsvBody(headers, rows) == [empty |-> FALSE, headers |-> headers, rows |-> rows]

\* a response without a non-blank line
EmptyCsv == [empty |-> TRUE, headers |-> <<>>, rows |-> <<>>]

CsvBodies ==
  { CsvBody(<<"GEO_ID", "PRED3_PE">>,
            << << s1400000US \o s12, s10 >>, << s1400000US \o s13, <<" ">> \o s30 >>,
               << s1400000US \o s14, s20 >> >>),
    CsvBody(<<"PRED3_PE", "NAME", "GEO_ID">>,
            << << s20, sMiami, s1400000US \o s12 >>, << s20, sDoral, s13 >>,
               << sNA, sDoral, s1400000US \o s14 >>, << s30 >> >>),
    CsvBody(<<"GEO_ID", "OTHER">>, << << s1400000US \o s12, s10 >> >>),
    EmptyCsv }

\* headers.indexOf(name)
indexOf(headers, name) ==
  IF \E i \in 1..Len(headers) : headers[i] = name
    THEN (CHOOSE i \in 1..Len(headers) :
            headers[i] = name /\ \A j \in 1..(i - 1) : headers[j] # name) - 1
    ELSE -1

\* values[index]?.trim()
trimmedAt(values, index) ==
  IF index >= 0 /\ index < Len(values) THEN Str(trim(values[index + 1])) ELSE Undefined

\* s.replace(pattern, ''): the first occurrence is removed
replaceFirst(s, pattern) ==
  LET starts == { i \in 1..(Len(s) - Len(pattern) + 1) :
                    SubSeq(s, i, i + Len(pattern) - 1) = pattern }
  IN  IF starts = {} THEN s
      ELSE LET i == CHOOSE a \in starts : \A b \in starts : a <= b
           IN  SubSeq(s, 1, i - 1) \o SubSeq(s, i + Len(pattern), Len(s))

\* pred3PEMap[geoid] = pred3PE on a map kept as a set of <<geoid, value>>
put(map, key, value) == { e \in map : e[1] # key } \cup { << key, value >> }

\* map[key]
lookup(map, key) ==
  IF \E e \in map : e[1] = key THEN (CHOOSE e \in map : e[1] = key)[2] ELSE Undefined

max2(a, b) == IF a >= b THEN a ELSE b

\* the loop over lines[1..] that fills pred3PEMap
RECURSIVE pred3PEMapOf(_, _, _, _)
pred3PEMapOf(rows, geoIdIndex, pred3PEIndex, map) ==
  IF rows = <<>> THEN map
  ELSE LET values == Head(rows)
           geoId == trimmedAt(values, geoIdIndex)
           pred3PE == parseFloat(trimmedAt(values, pred3PEIndex))
           added == IF /\ Len(values) > max2(geoIdIndex, pred3PEIndex)
                       /\ Truthy(geoId)
                       /\ pred3PE.k # "nan"
                      THEN put(map, replaceFirst(geoId.s, s1400000US), pred3PE)
                      ELSE map
       IN  pred3PEMapOf(Tail(rows), geoIdIndex, pred3PEIndex, added)

\* the CSV part of map.on('load'): a rejected fetch and parseCSVLine of a
\* missing header line end in the catch, a response that is not ok is
\* skipped; none of them touches state
LoadCsv ==
  /\ phase = "csv"
  /\ phase' = "census"
  /\ \E outcome \in {"failed", "notOk", "ok"} : \E body \in CsvBodies :
       /\ fetched' = [fetched EXCEPT !["csv"] = Append(@, outcome)]
       /\ IF outcome = "ok" /\ ~body.empty
            THEN pred3PEDataRef' =
                   pred3PEMapOf(body.rows, indexOf(body.headers, "GEO_ID"),
                                indexOf(body.headers, "PRED3_PE"), {})
            ELSE UNCHANGED pred3PEDataRef
  /\ last' = "LoadCsv"
  /\ UNCHANGED << highlight, mapCurrent, loading, error, projectsResponse, allProjectsData,
                  allMarkers, switchVars, filterVars, searchVars, queryEffectDue,
                  markerEffectDue, censusResponse, censusDataRef, censusStats,
                  censusLayersReady, mapVars >>

(***************************************************************************)
(* The census part of the load handler.                                    *)
(***************************************************************************)
kRating == "T_FEMA_National_Risk_Index_$_.FEMAIndexRating"
kPopulation ==
  "T_CENSUS_Community_Resilience_Est$_.Total_population__excludes_adult_correctional_juvenile_facilitie"
kGeoid == "L0Census_Tracts.GEOID"

sVeryHigh == <<"V", "e", "r", "y", " ", "H", "i", "g", "h">>
sVeryLow == <<"V", "e", "r", "y", " ", "L", "o", "w">>
sHuge == <<"1", "e", "9", "9", "9">>
s99 == <<"9", "9">>

\* positions: geographic [lon, lat], projected [x, y] and [x, y, z]
Position(x, y) == Arr(<< Num(x), Num(y) >>)
Position3(x, y, z) == Arr(<< Num(x), Num(y), Num(z) >>)

CensusFeature(geometry, props) == [geometry |-> geometry, props |-> props]

\* the tract features a femaindex.geojson response is made of
CensusFeatures ==
  { CensusFeature(Geometry("Point", Position(-80, 26)),
      (kRating :> Str(sVeryHigh)) @@ (kPopulation :> Num(10)) @@ (kGeoid :> Str(s12))),
    CensusFeature(Geometry("Polygon",
        Arr(<< Arr(<< Position(-10018754, 5009377), Position(-5009377, 5009377),
                      Position(-5009377, 0), Position(-10018754, 5009377) >>) >>)),
      (kRating :> Str(sVeryLow)) @@ (kPopulation :> Str(s20)) @@ (kGeoid :> Str(s13))),
    CensusFeature(Geometry("MultiPolygon",
        Arr(<< Arr(<< Arr(<< Position(-81, 25), Position(-80, 25), Position(-81, 25) >>) >>),
               Arr(<< Arr(<< Position(-83, 27), Position(-82, 27), Position(-83, 27) >>),
                      Arr(<< Position(-83, 27), Position(-83, 28) >>) >>) >>)),
      (kRating :> Str(sVeryHigh)) @@ (kPopulation :> Num(30)) @@ (kGeoid :> Str(s14))),
    CensusFeature(NullGeometry,
      (kPopulation :> Str(sNA)) @@ (kGeoid :> Str(s12))),
    CensusFeature(Geometry("LineString",
        Arr(<< Position3(-10018754, 5009377, 7), Position3(-5009377, 0, 9) >>)),
      (kRating :> Str(<<>>)) @@ (kPopulation :> JsNull)),
    CensusFeature(Geometry("Point", Position(5009377, 10018754)),
      (kPopulation :> Str(sHuge)) @@ (kGeoid :> Str(s99))),
    CensusFeature(Geometry("GeometryCollection", Undefined),
      (kRating :> Str(sVeryLow)) @@ (kPopulation :> Str(<<>>)) @@ (kGeoid :> JsNull)) }

MaxCensusFeatures == 3

\* the feature lists of the femaindex.geojson responses
CensusBodies ==
  UNION { [1..n -> CensusFeatures] : n \in 0..MaxCensusFeatures }

\* processedFeature that gives a tract without a table entry the value 0
processedFeature_MissIsZero(feature, index, pred3PEData) ==
  LET properties == feature.props
      riskRating == Or(Get(properties, kRating), JsNull)
      populationValue == parseNumericValue(Get(properties, kPopulation))
      geoid == Get(properties, kGeoid)
      pred3PE == IF Truthy(geoid) THEN lookup(pred3PEData, String(geoid)) ELSE JsNull
  IN  [id |-> IF geoid.k \in {"null", "undefined"} THEN Num(index) ELSE geoid,
       geometry |-> feature.geometry,
       props |-> [key \in DOMAIN properties
                           \cup {"__riskRating", "__population", "__pred3PE"} |->
                    CASE key = "__riskRating" -> riskRating
                      [] key = "__population" -> populationValue
                      [] key = "__pred3PE" ->
                           IF pred3PE.k \in {"null", "undefined"} THEN Num(0) ELSE pred3PE
                      [] OTHER -> properties[key]]]

\* one element of processedFeatures
processedFeature(feature, index, pred3PEData) ==
  LET properties == feature.props
      riskRating == Or(Get(properties, kRating), JsNull)
      populationValue == parseNumericValue(Get(properties, kPopulation))
      geoid == Get(properties, kGeoid)
      pred3PE == IF Truthy(geoid) THEN lookup(pred3PEData, String(geoid)) ELSE JsNull
  IN  [id |-> IF geoid.k \in {"null", "undefined"} THEN Num(index) ELSE geoid,
       geometry |-> feature.geometry,
       props |-> [key \in DOMAIN properties
                           \cup {"__riskRating", "__population", "__pred3PE"} |->
                    CASE key = "__riskRating" -> riskRating
                      [] key = "__population" -> populationValue
                      [] key = "__pred3PE" ->
                           IF pred3PE.k \in {"null", "undefined"} THEN JsNull ELSE pred3PE
                      [] OTHER -> properties[key]]]

\* processedFeatures.map(feature => feature.properties[key])
propertyOfEach(features, key) == [i \in 1..Len(features) |-> features[i].props[key]]

\* [...new Set(values)]
RECURSIVE uniqueInOrder(_, _)
uniqueInOrder(values, seen) ==
  IF values = <<>> THEN seen
  ELSE uniqueInOrder(Tail(values),
                     IF \E i \in 1..Len(seen) : seen[i] = Head(values)
                       THEN seen ELSE Append(seen, Head(values)))

\* statsPayload
statsPayloadOf(processedFeatures) ==
  LET riskRatings == SelectSeq(propertyOfEach(processedFeatures, "__riskRating"),
                               LAMBDA v : v.k \notin {"null", "undefined"})
      populationValues == SelectSeq(propertyOfEach(processedFeatures, "__population"),
                                    IsFinite)
      pred3PEValues == SelectSeq(propertyOfEach(processedFeatures, "__pred3PE"),
                                 IsFinite)
  IN  [isNull |-> FALSE,
       risk |-> [ratings |-> uniqueInOrder(riskRatings, <<>>), count |-> Len(riskRatings)],
       population |-> getRangeStats(populationValues),
       pred3PE |-> getRangeStats(pred3PEValues),
       counts |-> [total |-> Len(processedFeatures),
                   missingRisk |-> Len(processedFeatures) - Len(riskRatings),
                   missingPopulation |-> Len(processedFeatures) - Len(populationValues),
                   missingPred3PE |-> Len(processedFeatures) - Len(pred3PEValues)]]

\* layerVisibilities whose risk layer ignores censusVisibleRef
layerVisibilities_RiskIgnoresVisible(view, isVisible) ==
  [risk |-> IF view = "risk" THEN "visible" ELSE "none",
   pred3pe |-> IF view = "pred3pe" /\ isVisible THEN "visible" ELSE "none",
   outline |-> IF isVisible THEN "visible" ELSE "none"]

\* the layers as addCensusSourceAndLayers adds or updates them: riskVisibility,
\* pred3PEVisibility and outlineVisibility from the two refs
layerVisibilities(view, isVisible) ==
  [risk |-> IF view = "risk" /\ isVisible THEN "visible" ELSE "none",
   pred3pe |-> IF view = "pred3pe" /\ isVisible THEN "visible" ELSE "none",
   outline |-> IF isVisible THEN "visible" ELSE "none"]

\* LoadCensus that is skipped once the project part has set the error
LoadCensus_SkippedAfterError ==
  /\ phase = "census"
  /\ phase' = "ready"
  /\ \E ok \in BOOLEAN : \E rawGeojson \in CensusBodies :
       /\ fetched' = [fetched EXCEPT
                        !["census"] = Append(@, IF ok THEN "ok" ELSE "failed")]
       /\ IF ~ok \/ error # ""
            THEN UNCHANGED << censusResponse, censusDataRef, censusStats,
                              censusLayersReady, censusLayers, bufferLayer,
                              censusEffectDue >>
            ELSE LET reprojected == reprojectFeatureCollectionIfNeeded(Data(rawGeojson))
                     processedFeatures ==
                       [i \in 1..Len(reprojected.features) |->
                          processedFeature(reprojected.features[i], i - 1, pred3PEDataRef)]
                 IN  /\ censusResponse' = Data(rawGeojson)
                     /\ censusDataRef' = Data(processedFeatures)
                     /\ censusStats' = statsPayloadOf(processedFeatures)
                     /\ censusLayersReady' = mapCurrent
                     /\ censusLayers' = layerVisibilities(censusViewRef, censusVisibleRef)
                     /\ bufferLayer' = (bufferLayer \/ bufferSource)
                     /\ censusEffectDue' = TRUE
  /\ last' = "LoadCensus"
  /\ UNCHANGED << highlight, mapCurrent, loading, error, projectsResponse, allProjectsData,
                  allMarkers, switchVars, filterVars, searchVars, queryEffectDue,
                  markerEffectDue, pred3PEDataRef, viewVars, styleLoad,
                  isSatelliteView, bufferSource, hoverVars >>

\* the census part of map.on('load'): a rejected fetch or a response that
\* is not ok ends in the catch, which only logs; otherwise the features are
\* normalized and processed, the refs and censusStats are set and
\* addCensusSourceAndLayers sets censusLayersReady
LoadCensus ==
  /\ phase = "census"
  /\ phase' = "ready"
  /\ \E ok \in BOOLEAN : \E rawGeojson \in CensusBodies :
       /\ fetched' = [fetched EXCEPT
                        !["census"] = Append(@, IF ok THEN "ok" ELSE "failed")]
       /\ IF ~ok
            THEN UNCHANGED << censusResponse, censusDataRef, censusStats,
                              censusLayersReady, censusLayers, bufferLayer,
                              censusEffectDue >>
            ELSE LET reprojected == reprojectFeatureCollectionIfNeeded(Data(rawGeojson))
                     processedFeatures ==
                       [i \in 1..Len(reprojected.features) |->
                          processedFeature(reprojected.features[i], i - 1, pred3PEDataRef)]
                 IN  /\ censusResponse' = Data(rawGeojson)
                     /\ censusDataRef' = Data(processedFeatures)
                     /\ censusStats' = statsPayloadOf(processedFeatures)
                     /\ censusLayersReady' = mapCurrent
                     /\ censusLayers' = layerVisibilities(censusViewRef, censusVisibleRef)
                     /\ bufferLayer' = (bufferLayer \/ bufferSource)
                     /\ censusEffectDue' = TRUE
  /\ last' = "LoadCensus"
  /\ UNCHANGED << highlight, mapCurrent, loading, error, projectsResponse, allProjectsData,
                  allMarkers, switchVars, filterVars, searchVars, queryEffectDue,
                  markerEffectDue, pred3PEDataRef, viewVars, styleLoad,
                  isSatelliteView, bufferSource, hoverVars >>

(***************************************************************************)
(* The fill colour of the PRED3_PE layer.  Stop inputs are kept in ten-    *)
(* thousandths, so that min + range * 0.1667 is a whole number.            *)
(***************************************************************************)
Gray == "#9e9e9e"
SingleValueColor == "#49006A"
StopColors ==
  << "#E8D4F5", "#D4B3E8", "#C298DB", "#A866C7", "#7A3FA8", "#5A1D85", "#2D0045" >>

\* the factors of range at the seven stops, in ten-thousandths
StopFactors == << 0, 1667, 3333, 5000, 6667, 8333, 10000 >>

\* buildPred3PEColorExpression with the stop colours reversed
buildPred3PEColorExpression_Reversed(stats) ==
  LET pred3PEStats == stats.pred3PE
  IN  IF stats.isNull \/ pred3PEStats.min = JsNull \/ pred3PEStats.max = JsNull
        THEN [kind |-> "constant", number |-> Gray, stops |-> <<>>, other |-> Gray]
      ELSE IF pred3PEStats.min = pred3PEStats.max
        THEN [kind |-> "constant", number |-> SingleValueColor, stops |-> <<>>,
              other |-> Gray]
      ELSE LET range == pred3PEStats.max.n - pred3PEStats.min.n
           IN  [kind |-> "interpolate", number |-> "",
                stops |-> [i \in 1..7 |->
                             [at |-> pred3PEStats.min.n * 10000 + range * StopFactors[i],
                              color |-> StopColors[8 - i]]],
                other |-> Gray]

\* the 'case' expression: number is the colour of a numeric __pred3PE when
\* it is constant, stops the stops of the interpolation otherwise, other
\* the colour of a value that is not a number
buildPred3PEColorExpression(stats) ==
  LET pred3PEStats == stats.pred3PE
  IN  IF stats.isNull \/ pred3PEStats.min = JsNull \/ pred3PEStats.max = JsNull
        THEN [kind |-> "constant", number |-> Gray, stops |-> <<>>, other |-> Gray]
      ELSE IF pred3PEStats.min = pred3PEStats.max
        THEN [kind |-> "constant", number |-> SingleValueColor, stops |-> <<>>,
              other |-> Gray]
      ELSE LET range == pred3PEStats.max.n - pred3PEStats.min.n
           IN  [kind |-> "interpolate", number |-> "",
                stops |-> [i \in 1..7 |->
                             [at |-> pred3PEStats.min.n * 10000 + range * StopFactors[i],
                              color |-> StopColors[i]]],
                other |-> Gray]

\* a colour between two stop colours: from, to and the fraction num / den
Blend(from, to, num, den) == [from |-> from, to |-> to, num |-> num, den |-> den]
Pure(color) == Blend(color, color, 0, 1)

\* ['interpolate', ['linear'], value, stops]: the first colour below the
\* first stop, the last above the last, linear in between
interpolateLinear(stops, value) ==
  LET v == value * 10000
      n == Len(stops)
  IN  IF v <= stops[1].at THEN Pure(stops[1].color)
      ELSE IF v >= stops[n].at THEN Pure(stops[n].color)
      ELSE LET i == CHOOSE j \in 1..(n - 1) : stops[j].at <= v /\ v < stops[j + 1].at
           IN  IF v = stops[i].at THEN Pure(stops[i].color)
               ELSE Blend(stops[i].color, stops[i + 1].color,
                          v - stops[i].at, stops[i + 1].at - stops[i].at)

\* the fill colour the expression gives a feature whose __pred3PE is value
fillColor(expression, value) ==
  IF ~(value.k = "num") THEN Pure(expression.other)
  ELSE IF expression.kind = "constant" THEN Pure(expression.number)
  ELSE interpolateLinear(expression.stops, value.n)

\* the fill-color of the census-tracts-pred3pe layer once the layers exist
pred3PEColorExpression == buildPred3PEColorExpression(censusStats)

(***************************************************************************)
(* Start-up with all three data files.                                     *)
(***************************************************************************)
\* a collection with a Point whose geometry has no coordinates
NoCoordinatesFeatures ==
  << Feature("Point", 10, 10, [Infrastruc |-> Str(sBlue), Project_Na |-> Str(sab)]),
     Feature("NoCoordinates", 0, 0, [Infrastruc |-> Str(sGreen), Project_Na |-> Str(sAB)]) >>

LoadCollections == {MixedFeatures, NullGeometryFeatures, NoCoordinatesFeatures}

NextLoad ==
  \/ InitEffect
  \/ LoadProjectsFrom(LoadCollections)
  \/ LoadCsv
  \/ LoadCensus

LoadSpec == Init /\ [][NextLoad]_vars

\* the overlay in the middle of the page: rendered while loading, it shows
\* the error message when there is one
loadingOverlay == loading
errorShown == loadingOverlay /\ error # ""

(***************************************************************************)
(* Claims about the census data.                                           *)
(***************************************************************************)
CensusLoaded == ~censusDataRef.isNull

\* both coordinates of a position are within geographic bounds
Geographic(position) ==
  /\ position.s[1].k = "num" /\ abs(position.s[1].n) <= 180
  /\ position.s[2].k = "num" /\ abs(position.s[2].n) <= 90

\* C12: when the first coordinate of the response is geographic, or there
\* is none, the normalizer returns its input, once and twice, and the
\* processed features carry the geometries of the response; otherwise the
\* positions of every feature with a geometry are, one for one, the
\* conversions of the positions of the response.
C12_NormalizerAllOrNothing ==
  CensusLoaded =>
    LET in == censusResponse
        out == censusDataRef
        first == firstCoordOf(in.features)
        once == reprojectFeatureCollectionIfNeeded(in)
    IN  /\ Len(out.features) = Len(in.features)
        /\ IF first = Undefined \/ Geographic(first)
             THEN /\ once = in
                  /\ reprojectFeatureCollectionIfNeeded(once) = in
                  /\ \A i \in 1..Len(in.features) :
                       out.features[i].geometry = in.features[i].geometry
             ELSE \A i \in 1..Len(in.features) :
                    LET before == walkCoordinates(in.features[i].geometry)
                        after == walkCoordinates(out.features[i].geometry)
                    IN  /\ Len(after) = Len(before)
                        /\ \A j \in 1..Len(before) :
                             after[j] = toWgs84Coordinate(before[j])

\* a projected polygon first and a geographic point second: both converted
C12_Witness ==
  /\ last = "LoadCensus"
  /\ CensusLoaded
  /\ Len(censusResponse.features) = 2
  /\ censusResponse.features[1].geometry.type = "Polygon"
  /\ censusResponse.features[2].geometry.coordinates = Position(-80, 26)
  /\ censusDataRef.features[2].geometry.coordinates # Position(-80, 26)
  /\ walkCoordinates(censusDataRef.features[1].geometry)[1] = Position(-90, 41)

\* two coordinate values have the same nesting: the same depth and the same
\* array length at every level
RECURSIVE SameNesting(_, _)
SameNesting(a, b) ==
  IF a.k = "arr" /\ b.k = "arr"
    THEN /\ Len(a.s) = Len(b.s)
         /\ \A i \in 1..Len(a.s) : SameNesting(a.s[i], b.s[i])
    ELSE a.k # "arr" /\ b.k # "arr"

\* C13: the processed features are as many as those of the response, in the
\* same order, and the coordinates of each geometry have the nesting of the
\* input.
C13_NestingPreserved ==
  CensusLoaded =>
    /\ Len(censusDataRef.features) = Len(censusResponse.features)
    /\ \A i \in 1..Len(censusResponse.features) :
         /\ censusDataRef.features[i].geometry.isNull
               = censusResponse.features[i].geometry.isNull
         /\ censusDataRef.features[i].geometry.type
               = censusResponse.features[i].geometry.type
         /\ SameNesting(censusResponse.features[i].geometry.coordinates,
                        censusDataRef.features[i].geometry.coordinates)

\* a raw value is a string without a digit
NoDigit(raw) == raw.k = "str" /\ \A i \in 1..Len(raw.s) : raw.s[i] \notin Digits

\* C14: the coerced population is null or a finite number, and null when
\* the raw value is a string without a digit ("N/A", the empty string).
C14_CoercionNullOrFinite ==
  CensusLoaded =>
    \A i \in 1..Len(censusResponse.features) :
      LET raw == Get(censusResponse.features[i].props, kPopulation)
          coerced == censusDataRef.features[i].props["__population"]
      IN  /\ coerced = JsNull \/ coerced.k = "num"
          /\ NoDigit(raw) => coerced = JsNull

\* the finite values of a derived property over the processed features
FiniteValues(key) ==
  { censusDataRef.features[i].props[key].n :
      i \in { j \in 1..Len(censusDataRef.features) :
                censusDataRef.features[j].props[key].k = "num" } }

RangeByClaim(key, stats) ==
  LET values == FiniteValues(key)
  IN  IF values = {}
        THEN stats = [min |-> JsNull, mid |-> JsNull, max |-> JsNull]
        ELSE /\ stats.min.k = "num" /\ stats.max.k = "num" /\ stats.mid.k = "half"
             /\ stats.min.n \in values /\ \A v \in values : stats.min.n <= v
             /\ stats.max.n \in values /\ \A v \in values : stats.max.n >= v
             /\ stats.mid.n = 2 * stats.min.n + (stats.max.n - stats.min.n)
             /\ 2 * stats.min.n <= stats.mid.n /\ stats.mid.n <= 2 * stats.max.n

\* C15: the population and PRED3_PE statistics are the null range when the
\* feature set has no finite value, and otherwise the least value, the
\* greatest and the midpoint between them (mid is kept in halves); values
\* 10, 20, 30 give 10, 20, 30; computing the statistics again over the same
\* features gives the statistics in state.
C15_RangeStatistics ==
  CensusLoaded =>
    /\ RangeByClaim("__population", censusStats.population)
    /\ RangeByClaim("__pred3PE", censusStats.pred3PE)
    /\ FiniteValues("__population") = {10, 20, 30}
         => censusStats.population = [min |-> Num(10), mid |-> Half(40), max |-> Num(30)]
    /\ statsPayloadOf(censusDataRef.features) = censusStats

\* populations 10, "20", 30 in this order, and no PRED3_PE value at all
C15_Witness ==
  /\ last = "LoadCensus"
  /\ CensusLoaded
  /\ Len(censusDataRef.features) = 3
  /\ propertyOfEach(censusDataRef.features, "__population") = << Num(10), Num(20), Num(30) >>
  /\ censusStats.population = [min |-> Num(10), mid |-> Half(40), max |-> Num(30)]
  /\ censusStats.pred3PE = [min |-> JsNull, mid |-> JsNull, max |-> JsNull]

\* values a tract may carry in __pred3PE
ColorProbes == { JsNull, Undefined, Str(s20) } \cup { Num(v) : v \in {0, 10, 15, 20, 30, 40} }

\* C16: a value that is not a number is gray whatever the statistics; with
\* no finite value in the range every value is gray; with min equal to max
\* every number has the one fixed colour; otherwise there are seven stops,
\* min has the colour of the first and max the colour of the last.
C16_ColorMapping ==
  LET expression == pred3PEColorExpression
      range == censusStats.pred3PE
  IN  /\ \A v \in ColorProbes : v.k # "num" => fillColor(expression, v) = Pure(Gray)
      /\ (censusStats.isNull \/ range.min = JsNull)
           => \A v \in ColorProbes : fillColor(expression, v) = Pure(Gray)
      /\ (~censusStats.isNull /\ range.min # JsNull /\ range.min = range.max)
           => \A v \in ColorProbes :
                v.k = "num" => fillColor(expression, v) = Pure(SingleValueColor)
      /\ (~censusStats.isNull /\ range.min # JsNull /\ range.min # range.max)
           => /\ Len(expression.stops) = 7
              /\ fillColor(expression, range.min) = Pure("#E8D4F5")
              /\ fillColor(expression, range.max) = Pure("#2D0045")

\* PRED3_PE values 10 and 30 are joined to two tracts
C16_Witness ==
  /\ last = "LoadCensus"
  /\ CensusLoaded
  /\ censusStats.pred3PE.min = Num(10)
  /\ censusStats.pred3PE.max = Num(30)
  /\ fillColor(pred3PEColorExpression, Num(15)).from = "#D4B3E8"

(***************************************************************************)
(* Claims about start-up and failures.                                     *)
(***************************************************************************)
DataFiles == {"projects", "csv", "census"}

\* the load handler has returned
LoadHandlerDone == phase = "ready" /\ mapCurrent

\* the tables a CSV response can be parsed into
CsvTables ==
  { IF body.empty THEN {}
    ELSE pred3PEMapOf(body.rows, indexOf(body.headers, "GEO_ID"),
                      indexOf(body.headers, "PRED3_PE"), {}) : body \in CsvBodies }

C18_FailedFetchSetsIndicator ==
  \A file \in DataFiles :
    (fetched[file] # <<>> /\ fetched[file] # <<"ok">>) => (error # "" /\ errorShown)

\* C19: after the init effect has found no access token, no map exists, no
\* fetch has been made and the error message is set and shown.
C19_MissingTokenHaltsWithError ==
  (phase = "ready" /\ ~mapCurrent) =>
    /\ fetched = NoFetch
    /\ allProjectsData.isNull /\ ~CensusLoaded
    /\ error # ""
    /\ errorShown

\* C20: after a successful project fetch every feature with valid point
\* coordinates has its marker, whatever the other features are, and the
\* error is not set.
C20_BadFeatureSkippedIndividually ==
  fetched["projects"] = <<"ok">> =>
    /\ error = ""
    /\ \A i \in 1..Len(allProjectsData.features) :
         validPoint(allProjectsData.features[i])
           => \E m \in 1..Len(allMarkers) : allMarkers[m].feature = i

(***************************************************************************)
(* The active feature under filters and search navigation: C21, C22.       *)
(***************************************************************************)
\* the marker of feature i is displayed
markerDisplayed(i) ==
  \E m \in 1..Len(allMarkers) : allMarkers[m].feature = i /\ allMarkers[m].display

\* feature i passes the filter selection
passesFilters(i) ==
  shouldShow(allProjectsData.features[i].props, selectedTypes, selectedDisasterFocus,
             selectedCity)

\* C21: once the effects have run, the active feature (if any) passes the
\* filter selection and its marker is displayed; a popup whose marker the
\* filters hide has been closed.
C21_FilteredOutPopupIsClosed ==
  (Settled /\ activeFeature # 0)
    => (markerDisplayed(activeFeature) /\ passesFilters(activeFeature))

\* a search result has been selected and its marker effect has not yet run:
\* user events wait for the effects, so the only steps from such a state are
\* the query effect and the marker effect
navigationPending ==
  /\ markerEffectDue
  /\ activeFeature # 0
  /\ last \in {"ClickResult", "Enter", "QueryEffect"}

\* C22: the effects that follow the selection of a search result leave the
\* selected project as the active feature, whether or not its marker passes
\* the filter selection, and the search is closed (query empty, dropdown
\* hidden, index -1).
C22_SelectedResultStaysActive ==
  [][ (navigationPending /\ last' = "MarkerEffect")
        => /\ activeFeature' = activeFeature
           /\ searchQuery' = <<>>
           /\ ~showSearchResults'
           /\ selectedResultIndex' = -1 ]_vars

(***************************************************************************)
(* The search results and the selected index: C23, C26.                    *)
(***************************************************************************)
\* the search box alone: start-up, typing, keys, result selection and the
\* effects and timers that a selection sets off
NextSearch ==
  \/ InitEffect
  \/ LoadProjects
  \/ QueryEffect
  \/ ChangeQuery
  \/ FocusInput
  \/ ClearSearch
  \/ ClickOutside
  \/ KeyDown
  \/ ClickResult
  \/ SwitchTimerFires
  \/ MarkerEffect

SearchSpec == Init /\ [][NextSearch]_vars

\* what the query effect stores for a query and a collection
resultsFor(query, data) ==
  IF trim(query) = <<>> THEN <<>> ELSE searchProjects(query, data)

\* C23: once the query effect has run, the result list is the ranking of
\* the current query over the current collection, and empty for a blank
\* query; no result of an earlier query or collection remains.
C23_ResultsBelongToLatestQuery ==
  ~queryEffectDue => searchResults = resultsFor(searchQuery, allProjectsData)

\* the effect has stored a non-empty result for the current query, and
\* another query of the input set has a different non-empty result over
\* the same collection
C23_Witness ==
  /\ last = "QueryEffect"
  /\ searchResults # <<>>
  /\ \E q \in Queries :
       /\ q # searchQuery
       /\ resultsFor(q, allProjectsData) # <<>>
       /\ resultsFor(q, allProjectsData) # searchResults

(***************************************************************************)
(* The census join and the loaded data: C24, C25.                          *)
(***************************************************************************)
\* tract i of the response has no geographic identifier, or the table has
\* no entry for it
joinMiss(i) ==
  LET geoid == Get(censusResponse.features[i].props, kGeoid)
  IN  \/ geoid.k \in {"undefined", "null"}
      \/ geoid = Str(<<>>)
      \/ ~\E entry \in pred3PEDataRef : entry[1] = String(geoid)

\* C24: after a successful census load every tract of the response is
\* ingested; a tract without identifier or without table entry has a null
\* resilience value and its risk rating and population derived as for any
\* tract; the missing count of the field is the number of tracts without a
\* finite value, which includes every such tract, and the range statistics
\* are those of the other tracts' values; no error is set by it.
C24_JoinMissIsNull ==
  CensusLoaded =>
    LET raw == censusResponse.features
        tracts == censusDataRef.features
        valued == SelectSeq(Indices(Len(tracts)),
                            LAMBDA i : IsFinite(tracts[i].props["__pred3PE"]))
    IN  /\ Len(tracts) = Len(raw)
        /\ \A i \in 1..Len(raw) :
             joinMiss(i) =>
               /\ tracts[i].props["__pred3PE"] = JsNull
               /\ tracts[i].props["__riskRating"] = Or(Get(raw[i].props, kRating), JsNull)
               /\ tracts[i].props["__population"]
                    = parseNumericValue(Get(raw[i].props, kPopulation))
               /\ \A k \in 1..Len(valued) : valued[k] # i
        /\ censusStats.counts.total = Len(raw)
        /\ censusStats.counts.missingPred3PE = Len(raw) - Len(valued)
        /\ censusStats.pred3PE
             = getRangeStats([k \in 1..Len(valued) |-> tracts[valued[k]].props["__pred3PE"]])
        /\ fetched["census"] = <<"ok">>
        /\ (fetched["projects"] = <<"ok">> /\ ~bufferFeaturesThrows(allProjectsData.features))
             => error = ""

\* three tracts are loaded against a table with entries: one has an entry,
\* one has an identifier the table lacks, one has no identifier
C24_Witness ==
  /\ CensusLoaded
  /\ pred3PEDataRef # {}
  /\ Len(censusResponse.features) = 3
  /\ ~joinMiss(1)
  /\ joinMiss(2) /\ Get(censusResponse.features[2].props, kGeoid) = Str(s99)
  /\ joinMiss(3) /\ Get(censusResponse.features[3].props, kGeoid) = Undefined
  /\ censusStats.counts.missingPred3PE = 2
  /\ censusStats.pred3PE.min # JsNull

\* the table failed to load: every tract is a join miss
C24_WitnessEmptyTable ==
  /\ CensusLoaded
  /\ fetched["csv"] = <<"failed">>
  /\ Len(censusResponse.features) = 2
  /\ censusStats.counts.missingPred3PE = 2

\* C25: the project collection held in state is the collection as the
\* response delivered it, and the census response is unchanged by its
\* processing: every tract of the response keeps its own properties, and the
\* derived values are carried by the features of censusDataRef only.
C25_LoadedDataNotModifiedInPlace ==
  /\ ~allProjectsData.isNull => allProjectsData = projectsResponse
  /\ CensusLoaded =>
       \A i \in 1..Len(censusResponse.features) :
         /\ "__pred3PE" \notin DOMAIN censusResponse.features[i].props
         /\ \A key \in DOMAIN censusResponse.features[i].props :
              censusDataRef.features[i].props[key] = censusResponse.features[i].props[key]

\* Enter can select the first result: the list is not empty, the map exists
\* and the first result is a point feature
firstResultSelectable ==
  /\ showSearchResults
  /\ Len(searchResults) > 0
  /\ mapCurrent
  /\ allProjectsData.features[searchResults[1]].geom = "Point"

\* C26: the selected index always lies between -1 and the number of results
\* minus one; ArrowDown moves it by one and stops at the last result,
\* ArrowUp moves it by one and stops at -1; every step that changes the
\* result list and every run of the query effect sets it to -1, and a
\* change of the query leaves that effect pending; Enter with index -1
\* selects the first result.
C26_SelectedIndexInRange ==
  /\ [](selectedResultIndex \in -1..(Len(searchResults) - 1))
  /\ [][ /\ (last' = "ArrowDown" /\ searchResults # <<>>) =>
              selectedResultIndex' =
                IF selectedResultIndex = Len(searchResults) - 1
                  THEN selectedResultIndex ELSE selectedResultIndex + 1
         /\ (last' = "ArrowUp" /\ searchResults # <<>>) =>
              selectedResultIndex' =
                IF selectedResultIndex = -1 THEN -1 ELSE selectedResultIndex - 1
         /\ (searchResults' # searchResults \/ last' = "QueryEffect") =>
              selectedResultIndex' = -1
         /\ searchQuery' # searchQuery => (queryEffectDue' \/ selectedResultIndex' = -1)
         /\ (last' = "Enter" /\ selectedResultIndex = -1 /\ firstResultSelectable) =>
              activeFeature' = searchResults[1]
       ]_vars

\* ArrowDown has brought the index to the last of several results
C26_Witness ==
  /\ last = "ArrowDown"
  /\ Len(searchResults) >= 2
  /\ selectedResultIndex = Len(searchResults) - 1

\* Enter with index -1 has made the first result the active feature
C26_WitnessEnter ==
  /\ last = "Enter"
  /\ activeFeature # 0
  /\ searchQuery = <<>>

(***************************************************************************)
(* Feature switches, their reset timers and popup close events: C27.       *)
(***************************************************************************)
\* switches whose reset timers may be pending together
MaxSwitches == 2

NextSwitch ==
  \/ InitEffect
  \/ LoadProjects
  \/ ChangeQuery
  \/ QueryEffect
  \/ ClickResultWithin(MaxSwitches)
  \/ MarkerClickWithin(MaxSwitches)
  \/ SwitchTimerFires
  \/ PopupClosed
  \/ MarkerEffect

SwitchSpec == Init /\ [][NextSwitch]_vars

\* a switch is in progress from its start until its own timer has fired
switchInProgress == switchTimers > 0

\* C27: while a switch is in progress, a popupClosed event leaves the
\* active feature as it is.
C27_CloseNeverClearsDuringSwitch ==
  [][ (switchInProgress /\ last' = "PopupClosed") => activeFeature' = activeFeature ]_vars

(***************************************************************************)
(* The census view, the map style and the hover state.                     *)
(***************************************************************************)
\* the variables of the search box, the filters, the markers and the load
coreVars == << highlight, projectsResponse, censusVars, loadVars, allMarkers, switchVars,
               filterVars, searchVars, queryEffectDue, markerEffectDue >>

\* handleCensusViewChange(view); React schedules the effects when a state
\* value changes
handleCensusViewChange(view) ==
  /\ censusViewRef' = view
  /\ activeCensusView' = view
  /\ censusVisible' = (view # "none")
  /\ censusEffectDue' = (activeCensusView # view \/ censusVisible # (view # "none"))
  /\ UNCHANGED censusVisibleRef

\* the checked attribute of the radio button of a view
radioChecked(view) ==
  IF view = "none" THEN ~censusVisible \/ activeCensusView = "none"
  ELSE activeCensusView = view /\ censusVisible

\* the legend with the radio buttons is rendered
legendRendered == censusLayersReady /\ ~censusStats.isNull

\* onChange of a radio button of the legend
CensusViewChange ==
  /\ legendRendered
  /\ ~censusEffectDue
  /\ \E view \in {"none", "risk", "pred3pe"} :
       /\ ~radioChecked(view)
       /\ handleCensusViewChange(view)
  /\ last' = "CensusViewChange"
  /\ UNCHANGED << coreVars, styleVars, bufferSource, hoverVars >>

\* resetView: it calls handleCensusViewChange('risk'); the camera and the
\* marker styles it resets are not part of the model
ResetView ==
  /\ mapCurrent
  /\ ~censusEffectDue
  /\ handleCensusViewChange("risk")
  /\ last' = "ResetView"
  /\ UNCHANGED << coreVars, styleVars, bufferSource, hoverVars >>

\* handleCensusVisibilityToggle
CensusVisibilityToggle ==
  /\ ~censusEffectDue
  /\ censusVisible' = ~censusVisible
  /\ censusEffectDue' = TRUE
  /\ last' = "CensusVisibilityToggle"
  /\ UNCHANGED << coreVars, activeCensusView, censusViewRef, censusVisibleRef, styleVars,
                  bufferSource, hoverVars >>

\* setLayoutProperty(.., 'visibility', ..) of the view effect, on the
\* layers the style has
effectVisibilities ==
  LET fromState == [risk |-> IF censusVisible /\ activeCensusView = "risk"
                               THEN "visible" ELSE "none",
                    pred3pe |-> IF censusVisible /\ activeCensusView = "pred3pe"
                                  THEN "visible" ELSE "none",
                    outline |-> IF censusVisible THEN "visible" ELSE "none"]
  IN  [layer \in DOMAIN censusLayers |->
         IF censusLayers[layer] = "absent" THEN "absent" ELSE fromState[layer]]

\* the three census effects, in the order of their declaration: the first
\* copies censusVisible to its ref; the second copies the view to its ref,
\* sets the visibility of the layers, clears the hover when the census is
\* hidden and, like the third, calls addCensusSourceAndLayers once the
\* layers are ready.  While the new style is loading the map rejects
\* addSource, which ends the effect.
CensusEffect ==
  /\ censusEffectDue
  /\ censusEffectDue' = FALSE
  /\ censusVisibleRef' = censusVisible
  /\ censusViewRef' = activeCensusView
  /\ IF ~mapCurrent
       THEN UNCHANGED << censusLayers, bufferLayer, hoveredCensusIdRef, hoverState >>
       ELSE /\ IF ~censusVisible /\ hoveredCensusIdRef # 0
                 THEN /\ hoverState' = hoverState \ {hoveredCensusIdRef}
                      /\ hoveredCensusIdRef' = 0
                 ELSE UNCHANGED << hoveredCensusIdRef, hoverState >>
            /\ IF censusLayersReady /\ ~censusDataRef.isNull /\ ~censusStats.isNull
                    /\ styleLoad # "swapped"
                 THEN /\ censusLayers' = layerVisibilities(activeCensusView, censusVisible)
                      /\ bufferLayer' = (bufferLayer \/ bufferSource)
                 ELSE /\ censusLayers' = effectVisibilities
                      /\ UNCHANGED bufferLayer
  /\ last' = "CensusEffect"
  /\ UNCHANGED << coreVars, activeCensusView, censusVisible, styleLoad, isSatelliteView,
                  bufferSource, isHoveringMarkerRef, overMarker, overBuffer >>

\* toggleMapStyle: it registers the styledata callback and calls setStyle,
\* which starts to fetch the new style
ToggleMapStyle ==
  /\ mapCurrent
  /\ ~censusEffectDue
  /\ styleLoad' = IF styleLoad = "swapped" THEN "swapped" ELSE "fetching"
  /\ isSatelliteView' = ~isSatelliteView
  /\ last' = "ToggleMapStyle"
  /\ UNCHANGED << coreVars, viewVars, censusEffectDue, censusLayers, bufferLayer,
                  bufferSource, hoverVars >>

\* the map replaces the style: the sources and layers that were added to
\* the old style are gone, and with them the feature states
StyleSwapped ==
  /\ styleLoad = "fetching"
  /\ styleLoad' = "swapped"
  /\ censusLayers' = NoLayers
  /\ bufferLayer' = FALSE
  /\ bufferSource' = FALSE
  /\ hoverState' = {}
  /\ overBuffer' = FALSE
  /\ last' = "StyleSwapped"
  /\ UNCHANGED << coreVars, viewVars, censusEffectDue, isSatelliteView,
                  isHoveringMarkerRef, hoveredCensusIdRef, overMarker >>

\* the once('styledata') callback: it calls addCensusSourceAndLayers, which
\* returns early without census data or statistics
StyleData ==
  /\ styleLoad = "swapped"
  /\ styleLoad' = "idle"
  /\ IF mapCurrent /\ ~censusDataRef.isNull /\ ~censusStats.isNull
       THEN /\ censusLayers' = layerVisibilities(censusViewRef, censusVisibleRef)
            /\ bufferLayer' = (bufferLayer \/ bufferSource)
            /\ censusEffectDue' = (censusEffectDue \/ ~censusLayersReady)
            /\ censusLayersReady' = TRUE
       ELSE UNCHANGED << censusLayers, bufferLayer, censusEffectDue, censusLayersReady >>
  /\ last' = "StyleData"
  /\ UNCHANGED << highlight, projectsResponse, pred3PEDataRef, censusResponse, censusDataRef,
                  censusStats, loadVars, allMarkers, switchVars, filterVars, searchVars,
                  queryEffectDue, markerEffectDue, viewVars, isSatelliteView,
                  bufferSource, hoverVars >>

\* setFeatureState(.., { hover: false }) for the hovered tract and
\* hoveredCensusIdRef.current = null, as the marker and buffer handlers do
clearCensusHover ==
  IF hoveredCensusIdRef # 0 /\ mapCurrent
    THEN /\ hoverState' = hoverState \ {hoveredCensusIdRef}
         /\ hoveredCensusIdRef' = 0
    ELSE UNCHANGED << hoveredCensusIdRef, hoverState >>

\* mouseenter of a displayed marker element
MarkerMouseEnter ==
  /\ ~overMarker
  /\ \E m \in 1..Len(allMarkers) : allMarkers[m].display
  /\ overMarker' = TRUE
  /\ isHoveringMarkerRef' = TRUE
  /\ clearCensusHover
  /\ last' = "MarkerMouseEnter"
  /\ UNCHANGED << coreVars, viewVars, censusEffectDue, styleVars, bufferSource, overBuffer >>

\* mouseleave of the marker element the pointer is over
MarkerMouseLeave ==
  /\ overMarker
  /\ overMarker' = FALSE
  /\ isHoveringMarkerRef' = FALSE
  /\ last' = "MarkerMouseLeave"
  /\ UNCHANGED << coreVars, viewVars, censusEffectDue, styleVars, bufferSource,
                  hoveredCensusIdRef, hoverState, overBuffer >>

\* mouseenter of the layer 'marker-buffers'
BufferMouseEnter ==
  /\ bufferLayer
  /\ ~overBuffer
  /\ overBuffer' = TRUE
  /\ isHoveringMarkerRef' = TRUE
  /\ clearCensusHover
  /\ last' = "BufferMouseEnter"
  /\ UNCHANGED << coreVars, viewVars, censusEffectDue, styleVars, bufferSource, overMarker >>

\* mouseleave of the layer 'marker-buffers'
BufferMouseLeave ==
  /\ bufferLayer
  /\ overBuffer
  /\ overBuffer' = FALSE
  /\ isHoveringMarkerRef' = FALSE
  /\ last' = "BufferMouseLeave"
  /\ UNCHANGED << coreVars, viewVars, censusEffectDue, styleVars, bufferSource,
                  hoveredCensusIdRef, hoverState, overMarker >>

\* mousemove of the layer 'marker-buffers'
BufferMouseMove ==
  /\ bufferLayer
  /\ overBuffer
  /\ isHoveringMarkerRef' = TRUE
  /\ clearCensusHover
  /\ last' = "BufferMouseMove"
  /\ UNCHANGED << coreVars, viewVars, censusEffectDue, styleVars, bufferSource, overMarker,
                  overBuffer >>

\* a census fill layer is rendered, so that the map delivers its events
fillLayerVisible == censusLayers.risk = "visible" \/ censusLayers.pred3pe = "visible"

\* the ids of the tracts of the census source, by position
tractIds == 1..Len(censusDataRef.features)

\* mousemove over a tract of a census fill layer (handleHover).  The
\* listeners of 'marker-buffers' were registered first: inside a buffer
\* polygon its mousemove handler has set the flag before handleHover runs.
CensusMouseMove ==
  /\ fillLayerVisible
  /\ \E id \in tractIds :
       IF ~mapCurrent \/ isHoveringMarkerRef \/ (bufferLayer /\ overBuffer)
         THEN /\ isHoveringMarkerRef' = TRUE
              /\ clearCensusHover
         ELSE /\ hoverState' = (hoverState \ {hoveredCensusIdRef}) \cup {id}
              /\ hoveredCensusIdRef' = id
              /\ UNCHANGED isHoveringMarkerRef
  /\ last' = "CensusMouseMove"
  /\ UNCHANGED << coreVars, viewVars, censusEffectDue, styleVars, bufferSource, overMarker,
                  overBuffer >>

\* mouseleave of a census fill layer (handleLeave)
CensusMouseLeave ==
  /\ fillLayerVisible
  /\ mapCurrent
  /\ hoverState' = hoverState \ {hoveredCensusIdRef}
  /\ hoveredCensusIdRef' = 0
  /\ last' = "CensusMouseLeave"
  /\ UNCHANGED << coreVars, viewVars, censusEffectDue, styleVars, bufferSource,
                  isHoveringMarkerRef, overMarker, overBuffer >>

\* the census responses of the map specification: two tracts with an area,
\* which the fill layers render
MapCensusBodies ==
  { body \in CensusBodies :
      /\ Len(body) = 2
      /\ body[1] # body[2]
      /\ \A i \in 1..2 : body[i].geometry.type \in {"Polygon", "MultiPolygon"} }

\* the state after the load handler has returned with the project file and
\* the census file loaded (the CSV fetch failed) and the effects have run
MapInit ==
  /\ phase = "ready"
  /\ fetched = [districts |-> <<"started">>, projects |-> <<"ok">>,
                csv |-> <<"failed">>, census |-> <<"ok">>]
  /\ pred3PEDataRef = {}
  /\ \E rawGeojson \in MapCensusBodies :
       LET reprojected == reprojectFeatureCollectionIfNeeded(Data(rawGeojson))
           processedFeatures ==
             [i \in 1..Len(reprojected.features) |->
                processedFeature(reprojected.features[i], i - 1, {})]
       IN  /\ censusResponse = Data(rawGeojson)
           /\ censusDataRef = Data(processedFeatures)
           /\ censusStats = statsPayloadOf(processedFeatures)
  /\ censusLayersReady = TRUE
  /\ mapCurrent = TRUE
  /\ loading = FALSE
  /\ error = ""
  /\ highlight = NoHighlight
  /\ projectsResponse = Data(MixedFeatures)
  /\ allProjectsData = Data(afterMarkerLoop(MixedFeatures))
  /\ allMarkers = buildMarkers(MixedFeatures)
  /\ activeFeature = 0
  /\ isSwitchingFeatureRef = FALSE
  /\ switchTimers = 0
  /\ selectedTypes = <<>>
  /\ selectedDisasterFocus = <<>>
  /\ selectedCity = <<>>
  /\ searchQuery = <<>>
  /\ searchResults = <<>>
  /\ showSearchResults = FALSE
  /\ selectedResultIndex = -1
  /\ queryEffectDue = FALSE
  /\ markerEffectDue = FALSE
  /\ activeCensusView = "risk"
  /\ censusVisible = TRUE
  /\ censusViewRef = "risk"
  /\ censusVisibleRef = TRUE
  /\ censusEffectDue = FALSE
  /\ censusLayers = layerVisibilities("risk", TRUE)
  /\ bufferSource = TRUE
  /\ bufferLayer = TRUE
  /\ styleLoad = "idle"
  /\ isSatelliteView = FALSE
  /\ isHoveringMarkerRef = FALSE
  /\ hoveredCensusIdRef = 0
  /\ hoverState = {}
  /\ overMarker = FALSE
  /\ overBuffer = FALSE
  /\ last = "CensusEffect"

NextMap ==
  \/ CensusViewChange
  \/ ResetView
  \/ CensusVisibilityToggle
  \/ CensusEffect
  \/ ToggleMapStyle
  \/ StyleSwapped
  \/ StyleData
  \/ MarkerMouseEnter
  \/ MarkerMouseLeave
  \/ BufferMouseEnter
  \/ BufferMouseLeave
  \/ BufferMouseMove
  \/ CensusMouseMove
  \/ CensusMouseLeave

MapSpec == MapInit /\ [][NextMap]_vars

\* the census effects and the style load have run to their end
censusSettled == ~censusEffectDue /\ styleLoad = "idle"

\* C28: once the effects and a style load have settled, the risk layer is
\* visible iff the view is 'risk' and the census is visible, the resilience
\* layer iff the view is 'pred3pe' and the census is visible, the outline
\* iff the census is visible; the two fill layers are never visible
\* together and neither is for view 'none'.
C28_LayerVisibilityFollowsView ==
  censusSettled =>
    /\ censusLayers.risk = "visible" <=> (activeCensusView = "risk" /\ censusVisible)
    /\ censusLayers.pred3pe = "visible" <=> (activeCensusView = "pred3pe" /\ censusVisible)
    /\ censusLayers.outline = "visible" <=> censusVisible
    /\ ~(censusLayers.risk = "visible" /\ censusLayers.pred3pe = "visible")
    /\ activeCensusView = "none" =>
         (censusLayers.risk # "visible" /\ censusLayers.pred3pe # "visible")

\* the view was changed to 'pred3pe', the style was toggled and its
\* callback has added the layers again
C28_Witness ==
  /\ last = "StyleData"
  /\ isSatelliteView
  /\ ~censusEffectDue
  /\ activeCensusView = "pred3pe"
  /\ censusLayers.pred3pe = "visible"
  /\ censusLayers.risk = "none"
  /\ censusLayers.outline = "visible"

\* at most one tract is in hover state, the one hoveredCensusIdRef names
oneTractHovered == hoverState \subseteq {hoveredCensusIdRef} /\ Cardinality(hoverState) <= 1

\* C29: while the pointer is over a project marker no census tract is in
\* hover state, and at most one tract is hovered at any time.
C29_NoCensusHoverOverMarker ==
  /\ overMarker => hoverState = {}
  /\ oneTractHovered

(***************************************************************************)
(* highlightText.                                                          *)
(***************************************************************************)
MaxTextLen == 3
MaxQueryLen == 2

\* the characters of the texts and queries: a letter in both cases, a
\* character that is special in a regular expression, and white space
HighlightChars == {"a", "A", ".", " "}

\* the strings over HighlightChars of at most n characters
StringsUpTo(n) == UNION { [1..m -> HighlightChars] : m \in 0..n }

\* the texts: strings, and values that are not strings
HighlightTexts ==
  { Str(s) : s \in StringsUpTo(MaxTextLen) } \cup {JsNull, Undefined, Num(0), Num(7)}

\* the queries: strings, and the absent values
HighlightQueries == { Str(s) : s \in StringsUpTo(MaxQueryLen) } \cup {JsNull, Undefined}

\* the characters searchTerm.replace(/[.*+?^${}()|[\]\\]/g, '\\$&') escapes
RegExpSpecials == {".", "*", "+", "?", "^", "$", "{", "}", "(", ")", "|", "[", "]", "\\"}

\* escapedQuery: a backslash before every special character
RECURSIVE escapedQuery(_)
escapedQuery(searchTerm) ==
  IF searchTerm = <<>> THEN <<>>
  ELSE (IF Head(searchTerm) \in RegExpSpecials
          THEN << "\\", Head(searchTerm) >>
          ELSE << Head(searchTerm) >>) \o escapedQuery(Tail(searchTerm))

\* the atoms of the pattern new RegExp builds from its source: an escaped
\* character stands for itself, an unescaped '.' for any character
RECURSIVE atomsOf(_)
atomsOf(source) ==
  IF source = <<>> THEN <<>>
  ELSE IF Head(source) = "\\" /\ Len(source) >= 2
    THEN << [any |-> FALSE, char |-> source[2]] >> \o atomsOf(SubSeq(source, 3, Len(source)))
  ELSE IF Head(source) = "."
    THEN << [any |-> TRUE, char |-> "."] >> \o atomsOf(Tail(source))
  ELSE << [any |-> FALSE, char |-> Head(source)] >> \o atomsOf(Tail(source))

\* the pattern matches the text at position at (flag i: letters are
\* compared without their case)
matchesAt(text, atoms, at) ==
  /\ at + Len(atoms) - 1 <= Len(text)
  /\ \A j \in 1..Len(atoms) :
       atoms[j].any \/ toLowerChar(text[at + j - 1]) = toLowerChar(atoms[j].char)

\* text.split without the capturing group: the matches are dropped
RECURSIVE splitFrom_WithoutCapture(_, _, _, _)
splitFrom_WithoutCapture(text, atoms, start, at) ==
  IF at > Len(text) THEN << SubSeq(text, start, Len(text)) >>
  ELSE IF matchesAt(text, atoms, at)
    THEN << SubSeq(text, start, at - 1) >>
           \o splitFrom_WithoutCapture(text, atoms, at + Len(atoms), at + Len(atoms))
  ELSE splitFrom_WithoutCapture(text, atoms, start, at + 1)

\* text.split(regex) with a pattern that is one capturing group: the piece
\* before each match and the match itself, then the rest of the text
RECURSIVE splitFrom(_, _, _, _)
splitFrom(text, atoms, start, at) ==
  IF at > Len(text) THEN << SubSeq(text, start, Len(text)) >>
  ELSE IF matchesAt(text, atoms, at)
    THEN << SubSeq(text, start, at - 1), SubSeq(text, at, at + Len(atoms) - 1) >>
           \o splitFrom(text, atoms, at + Len(atoms), at + Len(atoms))
  ELSE splitFrom(text, atoms, start, at + 1)

\* a child of the returned fragment: the value rendered, whether it is
\* wrapped in a span, and whether the span has the highlight style
Child(value, span, highlighted) ==
  [value |-> value, span |-> span, highlighted |-> highlighted]

\* highlightText(text, query): the children of the fragment it returns
highlightText(text, query) ==
  IF ~Truthy(text) \/ text.k # "str" THEN << Child(text, FALSE, FALSE) >>
  ELSE IF ~Truthy(query) \/ trim(query.s) = <<>> THEN << Child(text, FALSE, FALSE) >>
  ELSE LET searchTerm == trim(query.s)
           regex == atomsOf(escapedQuery(searchTerm))
           parts == SelectSeq(splitFrom(text.s, regex, 1, 1), LAMBDA part : Len(part) > 0)
       IN  [index \in 1..Len(parts) |->
              Child(Str(parts[index]), TRUE,
                    toLowerCase(parts[index]) = toLowerCase(searchTerm))]

\* a result row is about to render a text with the query
HighlightInit ==
  /\ Constructed
  /\ \E text \in HighlightTexts, query \in HighlightQueries :
       highlight = [text |-> text, query |-> query, returned |-> FALSE, children |-> <<>>]

\* the call returns
HighlightText ==
  /\ ~highlight.returned
  /\ highlight' = [highlight EXCEPT !.returned = TRUE,
                                    !.children = highlightText(highlight.text, highlight.query)]
  /\ last' = "HighlightText"
  /\ UNCHANGED << projectsResponse, censusVars, loadVars, allMarkers, switchVars, filterVars,
                  searchVars, queryEffectDue, markerEffectDue, mapVars >>

HighlightSpec == HighlightInit /\ [][HighlightText]_vars

\* the strings of the children, concatenated in order
RECURSIVE joined(_)
joined(children) ==
  IF children = <<>> THEN <<>> ELSE Head(children).value.s \o joined(Tail(children))

\* the arguments are a non-empty string and a query that is not blank
highlightApplies ==
  /\ highlight.text.k = "str" /\ highlight.text.s # <<>>
  /\ highlight.query.k = "str" /\ trim(highlight.query.s) # <<>>

\* C30: the parts highlightText renders, concatenated in order, are the
\* text; a part is highlighted iff it equals the trimmed query without
\* regard to case; for a blank or absent query and for an empty or
\* non-string text the text is rendered as it is, with nothing highlighted.
C30_HighlightKeepsText ==
  highlight.returned =>
    IF highlightApplies
      THEN /\ joined(highlight.children) = highlight.text.s
           /\ \A index \in 1..Len(highlight.children) :
                LET child == highlight.children[index]
                IN  /\ child.value.k = "str" /\ child.value.s # <<>>
                    /\ child.highlighted <=>
                         /\ Len(child.value.s) = Len(trim(highlight.query.s))
                         /\ \A j \in 1..Len(child.value.s) :
                              toLowerChar(child.value.s[j])
                                = toLowerChar(trim(highlight.query.s)[j])
      ELSE highlight.children = << Child(highlight.text, FALSE, FALSE) >>

\* '.A.' with the query ' a': three parts, the middle one highlighted
C30_Witness ==
  /\ highlight.returned
  /\ highlight.text = Str(<< ".", "A", "." >>)
  /\ highlight.query = Str(<< " ", "a" >>)
  /\ Len(highlight.children) = 3
  /\ highlight.children[2] = Child(Str(<< "A" >>), TRUE, TRUE)
  /\ ~highlight.children[1].highlighted

\* a query of a special character matches that character only
C30_WitnessEscaped ==
  /\ highlight.returned
  /\ highlight.text = Str(<< "a", ".", "a" >>)
  /\ highlight.query = Str(<< "." >>)
  /\ highlight.children = << Child(Str(<< "a" >>), TRUE, FALSE),
                             Child(Str(<< "." >>), TRUE, TRUE),
                             Child(Str(<< "a" >>), TRUE, FALSE) >>

====
